---- MODULE Spec2Model ----
(***************************************************************************)
(* ConvertX HTTP API (src/unnamed/part_002, the current src/pages/api.tsx; *)
(* src/src/pages/api.tsx is its earlier revision).                         *)
(*                                                                         *)
(* JavaScript runs one handler at a time and switches handlers only at an  *)
(* await, so every action below is the code of one handler between two     *)
(* awaits.  The store is the SQLite tables jobs and file_names, the disk   *)
(* is the uploads/ and output/ trees.                                      *)
(***************************************************************************)
EXTENDS Integers, Sequences, FiniteSets, TLC

(***************************************************************************)
(* Bounds of the model.                                                    *)
(***************************************************************************)
MaxRequests == 2   \* POST /convert requests in flight at the same time (SpecLoad)
MaxFiles == 2      \* files submitted in one run, over all requests (Spec, SpecLoad)
MaxApiFiles == 1   \* the same, in the specification with the query endpoints (SpecApi)
MaxJobFiles == 3   \* files of the one job of SpecJob
MaxFaults == 1     \* environment faults in one run (store write, mkdir, pruning)
MaxNameFiles == 1  \* files submitted in one run of SpecNames
MaxConverters == 2 \* converters in the registry (SpecDispatch, SpecFormats)
MaxDispatchFiles == 2 \* files submitted in one run of SpecDispatch

Reqs == 1..MaxRequests

(***************************************************************************)
(* Strings that the code edits (file names, extensions) are sequences of   *)
(* characters, a character being a one-letter string; the empty string is  *)
(* the empty sequence.  Strings the code only copies and compares (status  *)
(* texts, error texts) are TLA+ strings.                                   *)
(***************************************************************************)
Empty == <<>>

Last(s) == s[Len(s)]
Front(s) == SubSeq(s, 1, Len(s) - 1)

\* Does t occur in s at position p (1-based)?
OccursAt(s, t, p) ==
    /\ p >= 1
    /\ p + Len(t) - 1 <= Len(s)
    /\ SubSeq(s, p, p + Len(t) - 1) = t

(***************************************************************************)
(* sanitize-filename, as called on every submitted name: illegal           *)
(* characters are removed, a name made of dots only becomes empty, and     *)
(* trailing dots and spaces are cut.                                       *)
(***************************************************************************)
IllegalChars == {"/", "?", "<", ">", ":", "*", "|"}

RECURSIVE StripTrailing(_)
StripTrailing(s) ==
    IF s # Empty /\ Last(s) \in {".", " "} THEN StripTrailing(Front(s)) ELSE s

sanitize(name) ==
    LET legal == SelectSeq(name, LAMBDA c : c \notin IllegalChars)
        unreserved == IF legal # Empty /\ \A k \in 1..Len(legal) : legal[k] = "."
                      THEN Empty ELSE legal
    IN  StripTrailing(unreserved)

(***************************************************************************)
(* fileName.split(".").pop(): the text after the last dot, the whole name  *)
(* when it has no dot.                                                     *)
(***************************************************************************)
RECURSIVE SplitPop(_)
SplitPop(s) ==
    IF s = Empty THEN Empty
    ELSE IF Last(s) = "." THEN Empty
    ELSE SplitPop(Front(s)) \o <<Last(s)>>

(***************************************************************************)
(* fileName.replace(new RegExp(`${orig}(?!.*${orig})`), ext): the first    *)
(* occurrence of orig that no further occurrence of orig follows is        *)
(* replaced by ext; without such an occurrence the name is unchanged.      *)
(***************************************************************************)
ReplaceLast(s, orig, ext) ==
    LET Matches(p) ==
            /\ OccursAt(s, orig, p)
            /\ ~ \E q \in (p + Len(orig))..(Len(s) + 1) : OccursAt(s, orig, q)
        hits == {p \in 1..(Len(s) + 1) : Matches(p)}
    IN  IF hits = {} THEN s
        ELSE LET p == CHOOSE x \in hits : \A y \in hits : x <= y
             IN  SubSeq(s, 1, p - 1) \o ext \o SubSeq(s, p + Len(orig), Len(s))

(***************************************************************************)
(* helpers/normalizeFiletype: lower-cased by construction here (the model  *)
(* alphabet has no capitals); the synonyms it rewrites.                    *)
(***************************************************************************)
normalizeFiletype(t) ==
    IF t = <<"j", "p", "g">> THEN <<"j", "p", "e", "g">>
    ELSE IF t = <<"h", "t", "m">> THEN <<"h", "t", "m", "l">>
    ELSE t

normalizeOutputFiletype(t) ==
    IF t = <<"j", "p", "e", "g">> THEN <<"j", "p", "g">> ELSE t

(***************************************************************************)
(* crypto.randomUUID(): a value never returned before.                     *)
(***************************************************************************)
UuidPool == <<"u1", "u2", "u3", "u4", "u5", "u6", "u7", "u8", "u9">>
\* randomUUID, returning the same value at every call.
randomUUIDOnce(n) == <<UuidPool[1]>>

randomUUID(n) == <<UuidPool[n]>>

(***************************************************************************)
(* encodeURIComponent / decodeURIComponent on the model alphabet: a space  *)
(* and a percent sign are escaped, every other character is kept.          *)
(***************************************************************************)
RECURSIVE encodeURIComponent(_)
encodeURIComponent(s) ==
    IF s = Empty THEN Empty
    ELSE (IF Head(s) = " " THEN <<"%", "2", "0">>
          ELSE IF Head(s) = "%" THEN <<"%", "2", "5">>
          ELSE <<Head(s)>>) \o encodeURIComponent(Tail(s))

\* A percent sign that starts no escape makes decodeURIComponent throw.
RECURSIVE Malformed(_)
Malformed(s) ==
    IF s = Empty THEN FALSE
    ELSE IF Head(s) # "%" THEN Malformed(Tail(s))
    ELSE IF Len(s) >= 3 /\ SubSeq(s, 2, 3) \in {<<"2", "0">>, <<"2", "5">>}
         THEN Malformed(SubSeq(s, 4, Len(s)))
         ELSE TRUE

RECURSIVE decodeURIComponent(_)
decodeURIComponent(s) ==
    IF s = Empty THEN Empty
    ELSE IF Head(s) # "%" THEN <<Head(s)>> \o decodeURIComponent(Tail(s))
    ELSE IF Len(s) >= 3 /\ SubSeq(s, 2, 3) = <<"2", "0">>
         THEN <<" ">> \o decodeURIComponent(SubSeq(s, 4, Len(s)))
    ELSE IF Len(s) >= 3 /\ SubSeq(s, 2, 3) = <<"2", "5">>
         THEN <<"%">> \o decodeURIComponent(SubSeq(s, 4, Len(s)))
    ELSE s

(***************************************************************************)
(* The users table and the Authorization header.                           *)
(***************************************************************************)
users == { [id |-> 1, email |-> "a", password |-> "pa"],
           [id |-> 2, email |-> "b", password |-> "pb"] }
UserIds == {u.id : u \in users}
null == 0

NoAuth == [scheme |-> "", email |-> "", password |-> ""]
Basic(e, p) == [scheme |-> "Basic", email |-> e, password |-> p]
AuthHeaders == {NoAuth, Basic("a", "pa"), Basic("b", "pb"), Basic("a", "pb")}

authenticateUser(headers) ==
    IF headers.scheme # "Basic" THEN null
    ELSE IF headers.email = "" \/ headers.password = "" THEN null
    ELSE LET found == {u \in users : u.email = headers.email}
         IN  IF found = {} THEN null
             ELSE LET user == CHOOSE u \in found : TRUE
                  IN  IF headers.password = user.password THEN user.id ELSE null

(***************************************************************************)
(* State.                                                                  *)
(*   jobs, file_names  the tables, in rowid order (rows are never deleted, *)
(*                     so a row's id is its position)                      *)
(*   lastRowid         last_insert_rowid() of the one database connection  *)
(*   dirs              directories made by mkdir: <<tree, user, job>>      *)
(*   uploads, outputs  files on disk: [user, job, name]                    *)
(*   uuids             number of UUIDs drawn so far                        *)
(*   calls             the calls of mainConverter so far, with their       *)
(*                     result ("running" until the call returns)           *)
(*   quota             files that may still be submitted in this run       *)
(*   faults            environment faults so far                           *)
(*   pc, loc           per POST /convert request: where the handler        *)
(*                     awaits, and its local variables                     *)
(*   resp              the response each POST /convert request returned    *)
(*   reply             the query answered in the last step, if any, with   *)
(*                     its answer                                          *)
(*   registry          the converters and their formats, in the order the  *)
(*                     registry iterates them; fixed at start-up           *)
(***************************************************************************)
VARIABLES jobs, file_names, lastRowid, dirs, uploads, outputs, uuids, calls,
          quota, faults, pc, loc, resp, reply, registry

store == <<jobs, file_names, lastRowid>>
disk == <<dirs, uploads, outputs>>
vars == <<jobs, file_names, lastRowid, dirs, uploads, outputs, uuids, calls,
          quota, faults, pc, loc, resp, reply, registry>>

\* The submitted files: a name, and a url, base64 content, or neither.
FileNames == { <<"a", ".", "d">>, <<"/">> }
FileKinds == {"url", "content", "none"}
Files == [name : FileNames, kind : FileKinds]
NoFile == [name |-> Empty, kind |-> "none"]

\* convertTo: missing (the empty string) or a target extension.
ConvertTos == { Empty, <<"p">> }

\* What the converter behind mainConverter answers besides "Done", and what
\* it throws.
FailureReasons == {"Failed, check logs"}
ThrownMessages == {"LibreOffice conversion failed"}
StoreError == "database is locked"

\* A thrown value that is an Error with a message, and the message the catch
\* block of the loop makes of a thrown value.
Error(message) == [instanceofError |-> TRUE, message |-> message]
ErrorMessage(error) ==
    IF error.instanceofError THEN error.message ELSE "Unknown error"

\* Path, with one directory per user instead of one per job.
PathPerUser(user, job, name) == [user |-> user, job |-> 0, name |-> name]

\* `${uploadsDir}${userId}/${jobIdValue}/${name}` and the same under outputDir.
Path(user, job, name) == [user |-> user, job |-> job, name |-> name]

\* body.converterName when the request names no converter.
NoName == ""

NoLoc == [userId |-> null, numFiles |-> 0, convertTo |-> Empty, converterName |-> NoName,
          jobIdValue |-> 0, i |-> 0, results |-> <<>>,
          file |-> NoFile, fileName |-> Empty, newFileName |-> Empty]
NoResp == [code |-> 0, error |-> "", jobId |-> 0, status |-> "",
           totalFiles |-> 0, completedFiles |-> 0, results |-> <<>>]
NoReply == [op |-> "", caller |-> null, userId |-> 0, jobId |-> 0, fileName |-> Empty,
            code |-> 0, error |-> "", job |-> <<>>, files |-> <<>>, file |-> <<>>,
            from |-> Empty, formats |-> <<>>]

ErrorResp(code, error) == [NoResp EXCEPT !.code = code, !.error = error]

(***************************************************************************)
(* The registry of converters (converters/main): each converter with the   *)
(* extensions it reads and writes, as getAllInputs and getAllTargets list  *)
(* them (a list may name an extension twice).                              *)
(***************************************************************************)
Converter(name, from, to) == [name |-> name, inputs |-> from, outputs |-> to]

Range(list) == {list[k] : k \in 1..Len(list)}

\* The registry of the runs that are not about the choice of a converter: one
\* converter, which takes every pair these runs submit.
SampleInputs ==
    << <<"d">>, <<"d", "d">>, <<"d", "o", "c", "x">>, <<"j", "p", "e", "g">> >>
SampleOutputs ==
    << <<"p">>, <<"p", "d", "f">>, <<"j", "p", "e", "g">>, <<"d">> >>
DefaultRegistry == << Converter("libreoffice", SampleInputs, SampleOutputs) >>

\* The state after start-up, with the run's budget of files and of faults,
\* and the converters installed.
InitAs(files, faultsLeft, converters) ==
    /\ jobs = <<>>
    /\ file_names = <<>>
    /\ lastRowid = 0
    /\ dirs = {}
    /\ uploads = {}
    /\ outputs = {}
    /\ uuids = 0
    /\ calls = {}
    /\ quota = files
    /\ faults = MaxFaults - faultsLeft
    /\ pc = [r \in Reqs |-> "idle"]
    /\ loc = [r \in Reqs |-> NoLoc]
    /\ resp = [r \in Reqs |-> NoResp]
    /\ reply = NoReply
    /\ registry = converters

InitWith(files, faultsLeft) == InitAs(files, faultsLeft, DefaultRegistry)

Init == InitWith(MaxFiles, MaxFaults)

\* A write to the store, to a directory or to a file succeeds, or fails
\* while the run's fault budget lasts.
Outcomes(f) == IF f < MaxFaults THEN {TRUE, FALSE} ELSE {TRUE}

\* JobRow, created with its final status at once.
JobRowCompleted(user, status, n) ==
    [user_id |-> user, status |-> "completed", num_files |-> n]

JobRow(user, status, n) == [user_id |-> user, status |-> status, num_files |-> n]

\* FileRow, with a fixed text for every status that is not "Done".
FileRowGeneric(job, name, out, status) ==
    [job_id |-> job, file_name |-> name, output_file_name |-> out,
     status |-> IF status = "Done" THEN "Done" ELSE "Failed"]

FileRow(job, name, out, status) ==
    [job_id |-> job, file_name |-> name, output_file_name |-> out, status |-> status]

NoUrl == [jobId |-> 0, fileName |-> Empty]
Completed(fileName, newFileName, job) ==
    [fileName |-> fileName, status |-> "completed", outputFileName |-> newFileName,
     downloadUrl |-> [jobId |-> job, fileName |-> encodeURIComponent(newFileName)],
     error |-> ""]
Failed(fileName, error) ==
    [fileName |-> fileName, status |-> "error", outputFileName |-> Empty,
     downloadUrl |-> NoUrl, error |-> error]

\* The handler returns (or onError answers for it): its locals are gone; the
\* ids it worked with stay readable.
Gone(l) == [NoLoc EXCEPT !.userId = l.userId, !.jobIdValue = l.jobIdValue,
                         !.converterName = l.converterName]

\* Validate, forgetting the check of the target extension.
ValidateFilesOnly(n, convertTo) ==
    IF n = 0 THEN "No files provided" ELSE ""

\* The validation of the request body: the error text, "" when it is valid.
Validate(n, convertTo) ==
    IF n = 0 THEN "No files provided"
    ELSE IF convertTo = Empty THEN "No target format specified"
    ELSE ""

(***************************************************************************)
(* POST /convert up to its first await on the disk: authentication,        *)
(* validation, the job insert and the read of last_insert_rowid().         *)
(***************************************************************************)
\* ConvertBeginWith, reading last_insert_rowid() as it was before its insert.
ConvertBeginWithStale(r, headers, n, convertTo, converterName) ==
    /\ pc[r] = "idle"
    /\ \A q \in 1..(r - 1) : pc[q] # "idle"   \* requests are numbered as they arrive
    /\ LET user == authenticateUser(headers)
           Reject(code, error) ==
               /\ pc' = [pc EXCEPT ![r] = "done"]
               /\ resp' = [resp EXCEPT ![r] = ErrorResp(code, error)]
               /\ UNCHANGED <<jobs, lastRowid, loc, quota>>
       IN  IF user = null THEN Reject(401, "Unauthorized") /\ faults' = faults
           ELSE IF Validate(n, convertTo) # ""
                THEN Reject(400, Validate(n, convertTo)) /\ faults' = faults
           ELSE \E ok \in Outcomes(faults) :
                  IF ok
                  THEN /\ jobs' = Append(jobs, JobRow(user, "pending", n))
                       /\ lastRowid' = Len(jobs) + 1
                       /\ loc' = [loc EXCEPT ![r] =
                                     [NoLoc EXCEPT !.userId = user,
                                                   !.numFiles = n,
                                                   !.convertTo = convertTo,
                                                   !.converterName = converterName,
                                                   !.jobIdValue = lastRowid]]
                       /\ pc' = [pc EXCEPT ![r] = "mkdir"]
                       /\ quota' = quota - n
                       /\ UNCHANGED <<resp, faults>>
                  ELSE /\ Reject(500, "Failed to create job")
                       /\ faults' = faults + 1
    /\ reply' = NoReply
    /\ registry' = registry
    /\ UNCHANGED <<file_names, dirs, uploads, outputs, uuids, calls>>

ConvertBeginWith(r, headers, n, convertTo, converterName) ==
    /\ pc[r] = "idle"
    /\ \A q \in 1..(r - 1) : pc[q] # "idle"   \* requests are numbered as they arrive
    /\ LET user == authenticateUser(headers)
           Reject(code, error) ==
               /\ pc' = [pc EXCEPT ![r] = "done"]
               /\ resp' = [resp EXCEPT ![r] = ErrorResp(code, error)]
               /\ UNCHANGED <<jobs, lastRowid, loc, quota>>
       IN  IF user = null THEN Reject(401, "Unauthorized") /\ faults' = faults
           ELSE IF Validate(n, convertTo) # ""
                THEN Reject(400, Validate(n, convertTo)) /\ faults' = faults
           ELSE \E ok \in Outcomes(faults) :
                  IF ok
                  THEN /\ jobs' = Append(jobs, JobRow(user, "pending", n))
                       /\ lastRowid' = Len(jobs) + 1
                       /\ loc' = [loc EXCEPT ![r] =
                                     [NoLoc EXCEPT !.userId = user,
                                                   !.numFiles = n,
                                                   !.convertTo = convertTo,
                                                   !.converterName = converterName,
                                                   !.jobIdValue = lastRowid']]
                       /\ pc' = [pc EXCEPT ![r] = "mkdir"]
                       /\ quota' = quota - n
                       /\ UNCHANGED <<resp, faults>>
                  ELSE /\ Reject(500, "Failed to create job")
                       /\ faults' = faults + 1
    /\ reply' = NoReply
    /\ registry' = registry
    /\ UNCHANGED <<file_names, dirs, uploads, outputs, uuids, calls>>

\* The request that names no converter.
ConvertBegin(r, headers, n, convertTo) ==
    ConvertBeginWith(r, headers, n, convertTo, NoName)

\* MkdirFailed, the error logged and the handler going on.
MkdirFailedIgnored(r, made) ==
    /\ dirs' = dirs \cup made
    /\ pc' = [pc EXCEPT ![r] = "loop"]
    /\ UNCHANGED <<resp, loc>>

\* A mkdir threw, after the directories in made were created.
MkdirFailed(r, made) ==
    /\ dirs' = dirs \cup made
    /\ pc' = [pc EXCEPT ![r] = "done"]
    /\ resp' = [resp EXCEPT ![r] = ErrorResp(500, "Failed to create job directories")]
    /\ loc' = [loc EXCEPT ![r] = Gone(loc[r])]

(***************************************************************************)
(* The two mkdir calls: both succeed, or the first or the second fails.    *)
(***************************************************************************)
ConvertMkdir(r) ==
    /\ pc[r] = "mkdir"
    /\ LET userUploadsDir == <<"uploads", loc[r].userId, loc[r].jobIdValue>>
           userOutputDir == <<"output", loc[r].userId, loc[r].jobIdValue>>
       IN  \/ /\ dirs' = dirs \cup {userUploadsDir, userOutputDir}
              /\ pc' = [pc EXCEPT ![r] = "loop"]
              /\ UNCHANGED <<resp, loc, faults>>
           \/ \E made \in {{}, {userUploadsDir}} :
                 /\ faults < MaxFaults
                 /\ faults' = faults + 1
                 /\ MkdirFailed(r, made)
    /\ reply' = NoReply
    /\ registry' = registry
    /\ UNCHANGED <<jobs, file_names, lastRowid, uploads, outputs, uuids, calls, quota>>

(***************************************************************************)
(* The ends of one loop iteration.                                         *)
(***************************************************************************)
\* query.run succeeded: the row is in file_names, on to the next file.
Proceed(r, results, row, f) ==
    /\ file_names' = Append(file_names, row)
    /\ lastRowid' = Len(file_names) + 1
    /\ loc' = [loc EXCEPT ![r].i = @ + 1, ![r].results = results,
                          ![r].file = NoFile, ![r].fileName = Empty,
                          ![r].newFileName = Empty]
    /\ pc' = [pc EXCEPT ![r] = "loop"]
    /\ resp' = resp
    /\ faults' = f

\* Abort, swallowing the error of the store and going on with the next file.
AbortSkipping(r, f) ==
    /\ UNCHANGED <<file_names, lastRowid>>
    /\ loc' = [loc EXCEPT ![r].i = @ + 1]
    /\ pc' = [pc EXCEPT ![r] = "loop"]
    /\ resp' = resp
    /\ faults' = f

\* query.run threw outside the try block (or inside the catch block): the
\* error leaves the handler and onError answers 500.
Abort(r, f) ==
    /\ UNCHANGED <<file_names, lastRowid>>
    /\ loc' = [loc EXCEPT ![r] = Gone(loc[r])]
    /\ pc' = [pc EXCEPT ![r] = "done"]
    /\ resp' = [resp EXCEPT ![r] = ErrorResp(500, "Internal server error")]
    /\ faults' = f

\* Catch, rethrowing instead of recording the failure.
CatchRethrow(r, results, fileName, errorMessage, f) == Abort(r, f)

\* Catch, pushing the result entry without writing the row.
CatchSilent(r, results, fileName, errorMessage, f) ==
    /\ UNCHANGED <<file_names, lastRowid>>
    /\ loc' = [loc EXCEPT ![r].i = @ + 1,
                          ![r].results = Append(results, Failed(fileName, errorMessage)),
                          ![r].file = NoFile, ![r].fileName = Empty,
                          ![r].newFileName = Empty]
    /\ pc' = [pc EXCEPT ![r] = "loop"]
    /\ resp' = resp
    /\ faults' = f

\* Catch, going back to the start of the iteration's work instead of
\* recording the failure.
CatchRetry(r, results, fileName, errorMessage, f) ==
    /\ UNCHANGED <<file_names, lastRowid>>
    /\ loc' = [loc EXCEPT ![r].fileName = fileName]
    /\ pc' = [pc EXCEPT ![r] = "materialize"]
    /\ resp' = resp
    /\ faults' = f

\* The catch block of the iteration.
Catch(r, results, fileName, errorMessage, f) ==
    \E ok \in Outcomes(f) :
        IF ok
        THEN Proceed(r, Append(results, Failed(fileName, errorMessage)),
                     FileRow(loc[r].jobIdValue, fileName, Empty, errorMessage), f)
        ELSE Abort(r, f + 1)

\* ConvertNextFile, writing the upload also when the file has neither a url
\* nor content.
ConvertNextFileAnyway(r, file) ==
    /\ pc[r] = "loop"
    /\ loc[r].i < loc[r].numFiles
    /\ LET fileName == sanitize(file.name)
           error == "Invalid file name"
       IN  IF fileName = Empty
           THEN \E ok \in Outcomes(faults) :
                   IF ok
                   THEN Proceed(r, Append(loc[r].results, Failed(file.name, error)),
                                FileRow(loc[r].jobIdValue, file.name, Empty, error),
                                faults)
                   ELSE Abort(r, faults + 1)
           ELSE /\ loc' = [loc EXCEPT ![r].file = file, ![r].fileName = fileName]
                /\ pc' = [pc EXCEPT ![r] = "materialize"]
                /\ UNCHANGED <<file_names, lastRowid, resp, faults>>
    /\ reply' = NoReply
    /\ registry' = registry
    /\ UNCHANGED <<jobs, dirs, uploads, outputs, uuids, calls, quota>>

(***************************************************************************)
(* The head of an iteration, up to the await of fetch or Bun.write.        *)
(***************************************************************************)
ConvertNextFile(r, file) ==
    /\ pc[r] = "loop"
    /\ loc[r].i < loc[r].numFiles
    /\ LET fileName == sanitize(file.name)
           error == "Invalid file name"
       IN  IF fileName = Empty
           THEN \E ok \in Outcomes(faults) :
                   IF ok
                   THEN Proceed(r, Append(loc[r].results, Failed(file.name, error)),
                                FileRow(loc[r].jobIdValue, file.name, Empty, error),
                                faults)
                   ELSE Abort(r, faults + 1)
           ELSE IF file.kind = "none"
                THEN Catch(r, loc[r].results, fileName,
                           "No file content or URL provided", faults)
           ELSE /\ loc' = [loc EXCEPT ![r].file = file, ![r].fileName = fileName]
                /\ pc' = [pc EXCEPT ![r] = "materialize"]
                /\ UNCHANGED <<file_names, lastRowid, resp, faults>>
    /\ reply' = NoReply
    /\ registry' = registry
    /\ UNCHANGED <<jobs, dirs, uploads, outputs, uuids, calls, quota>>

(***************************************************************************)
(* mainConverter (converters/main): the converter that does the call.      *)
(* The candidates are the converters that read fileType and write          *)
(* convertTo; a converter named by the caller is the only candidate; the   *)
(* first candidate in registry order is chosen, and none when there is no  *)
(* candidate.                                                              *)
(***************************************************************************)
NoConverter == ""

Supports(converter, fileType, convertTo) ==
    /\ normalizeFiletype(fileType) \in Range(converter.inputs)
    /\ normalizeFiletype(convertTo) \in Range(converter.outputs)

Candidates(fileType, convertTo, converterName) ==
    {k \in 1..Len(registry) :
        /\ Supports(registry[k], fileType, convertTo)
        /\ converterName # NoName => registry[k].name = converterName}

\* SelectConverter, taking turns among the candidates.
SelectConverterInTurn(fileType, convertTo, converterName) ==
    LET candidates == Candidates(fileType, convertTo, converterName)
        first == CHOOSE k \in candidates : \A m \in candidates : k <= m
        last == CHOOSE k \in candidates : \A m \in candidates : k >= m
    IN  IF candidates = {} THEN NoConverter
        ELSE registry[IF uuids % 2 = 0 THEN first ELSE last].name

SelectConverter(fileType, convertTo, converterName) ==
    LET candidates == Candidates(fileType, convertTo, converterName)
    IN  IF candidates = {} THEN NoConverter
        ELSE registry[CHOOSE k \in candidates : \A m \in candidates : k <= m].name

\* What mainConverter answers when no converter does the call.
Unsupported == "No converter supports the pair"

\* One call of mainConverter: its arguments, the converter chosen for it and
\* its result.
Call(job, file, filePath, fileType, convertTo, targetPath, converterName, result) ==
    [job |-> job, file |-> file, filePath |-> filePath, fileType |-> fileType,
     convertTo |-> convertTo, targetPath |-> targetPath,
     converterName |-> converterName,
     converter |-> SelectConverter(fileType, convertTo, converterName),
     result |-> result,
     wrote |-> FALSE]

\* ConvertMaterialized, calling mainConverter without awaiting it: the loop
\* goes on to the next file while the conversion runs.
ConvertMaterializedNoAwait(r) ==
    /\ pc[r] = "materialize"
    /\ LET l == loc[r]
           filePath == Path(l.userId, l.jobIdValue, l.fileName)
           fileUuid == randomUUID(uuids + 1)
           newFileName == fileUuid \o <<"_">> \o l.fileName
           targetPath == Path(l.userId, l.jobIdValue, newFileName)
       IN  /\ uploads' = uploads \cup {filePath}
           /\ uuids' = uuids + 1
           /\ loc' = [loc EXCEPT ![r].i = @ + 1, ![r].file = NoFile,
                                 ![r].fileName = Empty]
           /\ calls' = calls \cup {Call(l.jobIdValue, l.i + 1, filePath,
                                         SplitPop(l.fileName), l.convertTo, targetPath,
                                         l.converterName, "running")}
           /\ pc' = [pc EXCEPT ![r] = "loop"]
    /\ reply' = NoReply
    /\ registry' = registry
    /\ UNCHANGED <<jobs, file_names, lastRowid, resp, faults, dirs, outputs, quota>>

\* ConvertMaterialized, calling mainConverter without the converterName of
\* the request.
ConvertMaterializedAnyConverter(r) ==
    /\ pc[r] = "materialize"
    /\ LET l == loc[r]
           filePath == Path(l.userId, l.jobIdValue, l.fileName)
           normalizedConvertTo == normalizeFiletype(loc[r].convertTo)
           fileTypeOrig == SplitPop(l.fileName)
           fileType == normalizeFiletype(fileTypeOrig)
           newFileExt == normalizeOutputFiletype(normalizedConvertTo)
           fileUuid == randomUUID(uuids + 1)
           baseFileName == ReplaceLast(l.fileName, fileTypeOrig, newFileExt)
           newFileName == fileUuid \o <<"_">> \o baseFileName
           targetPath == Path(l.userId, l.jobIdValue, newFileName)
       IN  \/ /\ uploads' = uploads \cup {filePath}
              /\ uuids' = uuids + 1
              /\ loc' = [loc EXCEPT ![r].newFileName = newFileName]
              /\ calls' = calls \cup {Call(l.jobIdValue, l.i + 1, filePath, fileType,
                                            normalizedConvertTo, targetPath,
                                            NoName, "running")}
              /\ pc' = [pc EXCEPT ![r] = "convert"]
              /\ UNCHANGED <<file_names, lastRowid, resp, faults>>
           \/ /\ l.file.kind = "url"
              /\ Catch(r, l.results, l.fileName, "Failed to download file", faults)
              /\ UNCHANGED <<uploads, uuids, calls>>
    /\ reply' = NoReply
    /\ registry' = registry
    /\ UNCHANGED <<jobs, dirs, outputs, quota>>

(***************************************************************************)
(* fetch / Bun.write returned: the upload is on disk and the handler calls *)
(* mainConverter, or the download or the write failed.                     *)
(***************************************************************************)
ConvertMaterialized(r) ==
    /\ pc[r] = "materialize"
    /\ LET l == loc[r]
           filePath == Path(l.userId, l.jobIdValue, l.fileName)
           normalizedConvertTo == normalizeFiletype(loc[r].convertTo)
           fileTypeOrig == SplitPop(l.fileName)
           fileType == normalizeFiletype(fileTypeOrig)
           newFileExt == normalizeOutputFiletype(normalizedConvertTo)
           fileUuid == randomUUID(uuids + 1)
           baseFileName == ReplaceLast(l.fileName, fileTypeOrig, newFileExt)
           newFileName == fileUuid \o <<"_">> \o baseFileName
           targetPath == Path(l.userId, l.jobIdValue, newFileName)
       IN  \/ /\ uploads' = uploads \cup {filePath}
              /\ uuids' = uuids + 1
              /\ loc' = [loc EXCEPT ![r].newFileName = newFileName]
              /\ calls' = calls \cup {Call(l.jobIdValue, l.i + 1, filePath, fileType,
                                            normalizedConvertTo, targetPath,
                                            l.converterName, "running")}
              /\ pc' = [pc EXCEPT ![r] = "convert"]
              /\ UNCHANGED <<file_names, lastRowid, resp, faults>>
           \/ /\ l.file.kind = "url"
              /\ Catch(r, l.results, l.fileName, "Failed to download file", faults)
              /\ UNCHANGED <<uploads, uuids, calls>>
    /\ reply' = NoReply
    /\ registry' = registry
    /\ UNCHANGED <<jobs, dirs, outputs, quota>>

(***************************************************************************)
(* mainConverter returned "Done" or a failure text, or threw.  "Done"      *)
(* leaves the converted file at targetPath; a failure may leave a partial  *)
(* file there.  Without a converter for the call nothing is converted and  *)
(* the answer is a failure text.                                           *)
(***************************************************************************)
ConvertReturned(r) ==
    /\ pc[r] = "convert"
    /\ \E c \in calls : /\ c.targetPath = Path(loc[r].userId, loc[r].jobIdValue,
                                                loc[r].newFileName)
                        /\ c.result = "running"
    /\ LET l == loc[r]
           targetPath == Path(l.userId, l.jobIdValue, l.newFileName)
           Record(entry, status) ==
               \E ok \in Outcomes(faults) :
                   IF ok
                   THEN Proceed(r, Append(l.results, entry),
                                FileRow(l.jobIdValue, l.fileName, l.newFileName, status),
                                faults)
                   ELSE Catch(r, Append(l.results, entry), l.fileName, StoreError,
                              faults + 1)
           running == CHOOSE c \in calls :
                          c.targetPath = targetPath /\ c.result = "running"
           Returns(result) ==
               calls' = (calls \ {running}) \cup {[running EXCEPT !.result = result]}
       IN  \/ /\ running.converter # NoConverter
              /\ outputs' = outputs \cup {targetPath}
              /\ Returns("Done")
              /\ Record(Completed(l.fileName, l.newFileName, l.jobIdValue), "Done")
           \/ \E conversionResult \in FailureReasons, partial \in BOOLEAN :
                 /\ running.converter # NoConverter
                 /\ outputs' = IF partial THEN outputs \cup {targetPath} ELSE outputs
                 /\ Returns(conversionResult)
                 /\ Record(Failed(l.fileName, conversionResult), conversionResult)
           \/ /\ running.converter = NoConverter
              /\ outputs' = outputs
              /\ Returns(Unsupported)
              /\ Record(Failed(l.fileName, Unsupported), Unsupported)
           \/ \E message \in ThrownMessages :
                 /\ running.converter # NoConverter
                 /\ outputs' = outputs
                 /\ Returns(message)
                 /\ Catch(r, l.results, l.fileName, ErrorMessage(Error(message)), faults)
    /\ reply' = NoReply
    /\ registry' = registry
    /\ UNCHANGED <<jobs, dirs, uploads, uuids, quota>>

(***************************************************************************)
(* convert of the libreoffice converter, step by step.  soffice writes     *)
(* <basename of the input>.<outputFormat> into the output directory, or    *)
(* exits without writing it, or fails; the file found there is moved to    *)
(* outputPath.  Whatever is thrown inside is thrown again as "LibreOffice  *)
(* conversion failed: ..." and lands in the catch block of the handler.    *)
(* wrote records, for the properties, that soffice wrote the file in this  *)
(* call.                                                                   *)
(***************************************************************************)
\* path.extname: from the last dot on, unless the name has no dot or only a
\* leading one.
extname(name) ==
    LET dots == {k \in 2..Len(name) : name[k] = "."}
    IN  IF dots = {} THEN Empty
        ELSE SubSeq(name, CHOOSE k \in dots : \A d \in dots : d <= k, Len(name))

\* path.basename(inputPath, path.extname(inputPath))
basename(name) == SubSeq(name, 1, Len(name) - Len(extname(name)))

\* path.join(outputDir, `${inputBasename}.${outputFormat}`)
generatedFile(c) ==
    Path(c.targetPath.user, c.targetPath.job,
         basename(c.filePath.name) \o <<".">> \o c.convertTo)

\* The call of mainConverter the handler r awaits.
Awaited(r) ==
    CHOOSE c \in calls :
        /\ c.targetPath = Path(loc[r].userId, loc[r].jobIdValue, loc[r].newFileName)
        /\ c.result = "running"

\* convert returned "Done": the Done branch of the handler.
ReturnedDone(r, c) ==
    /\ calls' = (calls \ {c}) \cup {[c EXCEPT !.result = "Done"]}
    /\ \E ok \in Outcomes(faults) :
          IF ok
          THEN Proceed(r, Append(loc[r].results,
                                 Completed(loc[r].fileName, loc[r].newFileName,
                                           loc[r].jobIdValue)),
                       FileRow(loc[r].jobIdValue, loc[r].fileName, loc[r].newFileName,
                               "Done"),
                       faults)
          ELSE Catch(r, Append(loc[r].results,
                               Completed(loc[r].fileName, loc[r].newFileName,
                                         loc[r].jobIdValue)),
                     loc[r].fileName, StoreError, faults + 1)

\* ReturnedDone for what convert throws: a failure text handed back instead.
ThrewReturned(r, c, f) ==
    /\ calls' = (calls \ {c}) \cup
                   {[c EXCEPT !.result = "LibreOffice conversion failed"]}
    /\ Proceed(r, Append(loc[r].results,
                         Failed(loc[r].fileName, "LibreOffice conversion failed")),
               FileRow(loc[r].jobIdValue, loc[r].fileName, loc[r].newFileName,
                       "LibreOffice conversion failed"),
               f)

\* convert threw: the catch block of the handler.
Threw(r, c, f) ==
    /\ calls' = (calls \ {c}) \cup
                   {[c EXCEPT !.result = "LibreOffice conversion failed"]}
    /\ Catch(r, loc[r].results, loc[r].fileName,
             ErrorMessage(Error("LibreOffice conversion failed")), f)

\* await $`soffice --headless --convert-to ...`
LibreOfficeRan(r) ==
    /\ pc[r] = "convert"
    /\ \E c \in calls : c = Awaited(r) /\ c.converter = "libreoffice"
    /\ LET c == Awaited(r)
       IN  \/ /\ outputs' = outputs \cup {generatedFile(c)}
              /\ calls' = (calls \ {c}) \cup {[c EXCEPT !.wrote = TRUE]}
              /\ pc' = [pc EXCEPT ![r] = "exists"]
              /\ UNCHANGED <<file_names, lastRowid, loc, resp, faults>>
           \/ /\ pc' = [pc EXCEPT ![r] = "exists"]
              /\ UNCHANGED <<outputs, calls, file_names, lastRowid, loc, resp, faults>>
           \/ /\ outputs' = outputs
              /\ Threw(r, c, faults)
    /\ reply' = NoReply
    /\ registry' = registry
    /\ UNCHANGED <<jobs, dirs, uploads, uuids, quota>>

\* if (await file.exists())
LibreOfficeLooked(r) ==
    /\ pc[r] = "exists"
    /\ pc' = [pc EXCEPT ![r] = IF generatedFile(Awaited(r)) \in outputs
                               THEN "mv" ELSE "ls"]
    /\ reply' = NoReply
    /\ registry' = registry
    /\ UNCHANGED <<jobs, file_names, lastRowid, dirs, uploads, outputs, uuids, calls,
                   quota, faults, loc, resp>>

\* await $`mv ${generatedFile} ${outputPath}`; return "Done".  mv fails when
\* the source is gone and may fail for a reason of the disk; when source and
\* target are the same file, mv either does nothing or writes a diagnostic
\* and fails, as the mv at hand has it.
LibreOfficeMoved(r) ==
    /\ pc[r] = "mv"
    /\ LET c == Awaited(r)
           same == generatedFile(c) = c.targetPath
       IN  \/ /\ generatedFile(c) \in outputs
              /\ outputs' = (outputs \ {generatedFile(c)}) \cup {c.targetPath}
              /\ ReturnedDone(r, c)
           \/ /\ generatedFile(c) \notin outputs \/ faults < MaxFaults \/ same
              /\ outputs' = outputs
              /\ Threw(r, c, IF generatedFile(c) \in outputs /\ ~same
                             THEN faults + 1 ELSE faults)
    /\ reply' = NoReply
    /\ registry' = registry
    /\ UNCHANGED <<jobs, dirs, uploads, uuids, quota>>

\* await $`ls -la ${outputDir}`; throw new Error("LibreOffice did not ...")
LibreOfficeListed(r) ==
    /\ pc[r] = "ls"
    /\ outputs' = outputs
    /\ Threw(r, Awaited(r), faults)
    /\ reply' = NoReply
    /\ registry' = registry
    /\ UNCHANGED <<jobs, dirs, uploads, uuids, quota>>

(***************************************************************************)
(* The converter's process blocks for good: the promise the handler awaits *)
(* never settles.  The handler sets no timer and awaits nothing else.      *)
(***************************************************************************)
Never == "never settles"

ConvertHung(r) ==
    /\ pc[r] = "convert"
    /\ \E c \in calls :
          /\ c.targetPath = Path(loc[r].userId, loc[r].jobIdValue, loc[r].newFileName)
          /\ c.result = "running"
          /\ c.converter # NoConverter
          /\ calls' = (calls \ {c}) \cup {[c EXCEPT !.result = Never]}
    /\ reply' = NoReply
    /\ registry' = registry
    /\ UNCHANGED <<jobs, file_names, lastRowid, dirs, uploads, outputs, uuids, quota,
                   faults, pc, loc, resp>>

(***************************************************************************)
(* After the loop: the job status is computed from results and written,    *)
(* and the response is returned.                                           *)
(***************************************************************************)
\* CountCompleted, counting every result entry.
CountAll(results) == Len(results)

CountCompleted(results) == Len(SelectSeq(results, LAMBDA x : x.status = "completed"))

\* JobStatus, with a status of its own for the job without any success.
JobStatusFailed(completedFiles, numFiles) ==
    IF completedFiles = numFiles THEN "completed"
    ELSE IF completedFiles = 0 THEN "failed" ELSE "partial"

JobStatus(completedFiles, numFiles) ==
    IF completedFiles = numFiles THEN "completed" ELSE "partial"

\* ConvertFinish, answering without the UPDATE of the job row.
ConvertFinishNoUpdate(r) ==
    /\ pc[r] = "loop"
    /\ loc[r].i = loc[r].numFiles
    /\ LET l == loc[r]
           completedFiles == CountCompleted(l.results)
           jobStatus == JobStatus(completedFiles, loc[r].numFiles)
       IN  \E ok \in Outcomes(faults) :
              IF ok
              THEN /\ jobs' = jobs
                   /\ resp' = [resp EXCEPT ![r] =
                                  [code |-> 200, error |-> "", jobId |-> l.jobIdValue,
                                   status |-> jobStatus,
                                   totalFiles |-> loc[r].numFiles,
                                   completedFiles |-> completedFiles,
                                   results |-> l.results]]
                   /\ faults' = faults
              ELSE /\ jobs' = jobs
                   /\ resp' = [resp EXCEPT ![r] =
                                  ErrorResp(500, "Internal server error")]
                   /\ faults' = faults + 1
    /\ pc' = [pc EXCEPT ![r] = "done"]
    /\ loc' = [loc EXCEPT ![r] = Gone(loc[r])]
    /\ reply' = NoReply
    /\ registry' = registry
    /\ UNCHANGED <<file_names, lastRowid, dirs, uploads, outputs, uuids, calls, quota>>

ConvertFinish(r) ==
    /\ pc[r] = "loop"
    /\ loc[r].i = loc[r].numFiles
    /\ LET l == loc[r]
           completedFiles == CountCompleted(l.results)
           jobStatus == JobStatus(completedFiles, loc[r].numFiles)
       IN  \E ok \in Outcomes(faults) :
              IF ok
              THEN /\ jobs' = [jobs EXCEPT ![l.jobIdValue].status = jobStatus]
                   /\ resp' = [resp EXCEPT ![r] =
                                  [code |-> 200, error |-> "", jobId |-> l.jobIdValue,
                                   status |-> jobStatus,
                                   totalFiles |-> loc[r].numFiles,
                                   completedFiles |-> completedFiles,
                                   results |-> l.results]]
                   /\ faults' = faults
              ELSE /\ jobs' = jobs
                   /\ resp' = [resp EXCEPT ![r] =
                                  ErrorResp(500, "Internal server error")]
                   /\ faults' = faults + 1
    /\ pc' = [pc EXCEPT ![r] = "done"]
    /\ loc' = [loc EXCEPT ![r] = Gone(loc[r])]
    /\ reply' = NoReply
    /\ registry' = registry
    /\ UNCHANGED <<file_names, lastRowid, dirs, uploads, outputs, uuids, calls, quota>>

(***************************************************************************)
(* The response has been sent: the handler is gone and the next request    *)
(* may arrive.                                                             *)
(***************************************************************************)
ConvertEnd(r) ==
    /\ pc[r] = "done"
    /\ pc' = [pc EXCEPT ![r] = "idle"]
    /\ loc' = [loc EXCEPT ![r] = NoLoc]
    /\ resp' = [resp EXCEPT ![r] = NoResp]
    /\ reply' = NoReply
    /\ registry' = registry
    /\ UNCHANGED <<jobs, file_names, lastRowid, dirs, uploads, outputs, uuids, calls,
                   quota, faults>>

(***************************************************************************)
(* Outside the program: a converted file is removed from the disk.         *)
(***************************************************************************)
Prune ==
    /\ faults < MaxFaults
    /\ \E p \in outputs : outputs' = outputs \ {p}
    /\ faults' = faults + 1
    /\ reply' = NoReply
    /\ registry' = registry
    /\ UNCHANGED <<jobs, file_names, lastRowid, dirs, uploads, uuids, calls, quota,
                   pc, loc, resp>>

\* POST /convert, for the requests rs that may be in flight together.
Convert(rs) ==
    \E r \in rs :
        \/ \E headers \in AuthHeaders, n \in 0..quota, convertTo \in ConvertTos :
              ConvertBegin(r, headers, n, convertTo)
        \/ ConvertMkdir(r)
        \/ \E file \in Files : ConvertNextFile(r, file)
        \/ ConvertMaterialized(r)
        \/ ConvertReturned(r)
        \/ ConvertFinish(r)
        \/ ConvertEnd(r)

(***************************************************************************)
(* Spec: conversions one after the other.                                  *)
(***************************************************************************)
Next == Convert({1}) \/ Prune

Spec == Init /\ [][Next]_vars

(***************************************************************************)
(* The query endpoints.  Each is a pure function of the store and the disk *)
(* and answers in one step.                                                *)
(***************************************************************************)
\* SelectJob, without the user_id condition.
SelectJobAnyOwner(jobId, userId) ==
    IF jobId \in 1..Len(jobs) THEN <<jobs[jobId]>> ELSE <<>>

\* SELECT * FROM jobs WHERE id = ? AND user_id = ?
SelectJob(jobId, userId) ==
    IF jobId \in 1..Len(jobs) /\ jobs[jobId].user_id = userId
    THEN <<jobs[jobId]>> ELSE <<>>

\* SELECT * FROM file_names WHERE job_id = ?
SelectFiles(jobId) == SelectSeq(file_names, LAMBDA row : row.job_id = jobId)

\* SELECT * FROM file_names WHERE job_id = ? AND output_file_name = ?
SelectFile(jobId, name) ==
    SelectSeq(file_names,
              LAMBDA row : row.job_id = jobId /\ row.output_file_name = name)

Answer(op, caller, userId, jobId, fileName, code, error) ==
    [NoReply EXCEPT !.op = op, !.caller = caller, !.userId = userId,
                    !.jobId = jobId, !.fileName = fileName,
                    !.code = code, !.error = error]

\* GET /job/:jobId
GetJob(headers, jobId) ==
    LET user == authenticateUser(headers)
        A(code, error) == Answer("job", user, 0, jobId, Empty, code, error)
        job == SelectJob(jobId, user)
    IN  IF user = null THEN A(401, "Unauthorized")
        ELSE IF job = <<>> THEN A(404, "Job not found")
        ELSE [A(200, "") EXCEPT !.job = job, !.files = SelectFiles(jobId)]

\* The common end of both download endpoints, once the job is found: the
\* status, the error text and the file served.
Served(code, error, file) == [code |-> code, error |-> error, file |-> file]

\* ServeFile, reading the file without asking whether it exists: the read of
\* a missing file fails and onError answers.
ServeFileUnguarded(owner, jobId, fileName) ==
    IF Malformed(fileName) THEN Served(500, "Internal server error", <<>>)
    ELSE LET decodedFileName == decodeURIComponent(fileName)
             fileRecord == SelectFile(jobId, decodedFileName)
             filePath == Path(owner, jobId, decodedFileName)
         IN  IF fileRecord = <<>> THEN Served(404, "File not found", <<>>)
             ELSE IF filePath \notin outputs
                  THEN Served(500, "Internal server error", <<>>)
             ELSE Served(200, "", <<filePath>>)

\* ServeFile, without the look at the disk.
ServeFileUnseen(owner, jobId, fileName) ==
    IF Malformed(fileName) THEN Served(500, "Internal server error", <<>>)
    ELSE LET decodedFileName == decodeURIComponent(fileName)
             fileRecord == SelectFile(jobId, decodedFileName)
             filePath == Path(owner, jobId, decodedFileName)
         IN  IF fileRecord = <<>> THEN Served(404, "File not found", <<>>)
             ELSE Served(200, "", <<filePath>>)

ServeFile(owner, jobId, fileName) ==
    IF Malformed(fileName) THEN Served(500, "Internal server error", <<>>)
    ELSE LET decodedFileName == decodeURIComponent(fileName)
             fileRecord == SelectFile(jobId, decodedFileName)
             filePath == Path(owner, jobId, decodedFileName)
         IN  IF fileRecord = <<>> THEN Served(404, "File not found", <<>>)
             ELSE IF filePath \notin outputs
                  THEN Served(404, "File not found on disk", <<>>)
             ELSE Served(200, "", <<filePath>>)

\* parseInt on a path segment: the number its leading decimal digits spell,
\* NaN when it starts with no digit.  NaN is equal to nothing.
NaN == -1
Digits == <<"1", "2", "3">>

RECURSIVE ParseDigits(_, _)
ParseDigits(s, n) ==
    IF s = Empty \/ Head(s) \notin Range(Digits) THEN n
    ELSE ParseDigits(Tail(s),
                     10 * n + (CHOOSE d \in 1..Len(Digits) : Digits[d] = Head(s)))

parseInt(s) ==
    IF s = Empty \/ Head(s) \notin Range(Digits) THEN NaN ELSE ParseDigits(s, 0)

\* GetDownload, looking the job up before comparing the ids.
GetDownloadLookupFirst(headers, userId, jobId, fileName) ==
    LET user == authenticateUser(headers)
        A(code, error) == Answer("download", user, userId, jobId, fileName, code, error)
    IN  IF user = null THEN A(401, "Unauthorized")
        ELSE IF SelectJob(jobId, userId) = <<>> THEN A(404, "Job not found")
        ELSE IF user # userId THEN A(403, "Access denied")
        ELSE LET s == ServeFile(userId, jobId, fileName)
             IN  [A(s.code, s.error) EXCEPT !.file = s.file]

\* GET /download/:userId/:jobId/:fileName, userId being parseInt of the path
\* segment (the handler uses the segment in no other way).
GetDownload(headers, userId, jobId, fileName) ==
    LET user == authenticateUser(headers)
        A(code, error) == Answer("download", user, userId, jobId, fileName, code, error)
    IN  IF user = null THEN A(401, "Unauthorized")
        ELSE IF user # userId THEN A(403, "Access denied")
        ELSE IF SelectJob(jobId, userId) = <<>> THEN A(404, "Job not found")
        ELSE LET s == ServeFile(userId, jobId, fileName)
             IN  [A(s.code, s.error) EXCEPT !.file = s.file]

\* GetJobDownload, telling a job of another user from a job that is absent.
GetJobDownloadLeaky(headers, jobId, fileName) ==
    LET user == authenticateUser(headers)
        A(code, error) == Answer("jobDownload", user, 0, jobId, fileName, code, error)
    IN  IF user = null THEN A(401, "Unauthorized")
        ELSE IF jobId \notin 1..Len(jobs) THEN A(404, "Job not found")
        ELSE IF jobs[jobId].user_id # user THEN A(403, "Access denied")
        ELSE LET s == ServeFile(user, jobId, fileName)
             IN  [A(s.code, s.error) EXCEPT !.file = s.file]

\* GET /job/:jobId/download/:fileName
GetJobDownload(headers, jobId, fileName) ==
    LET user == authenticateUser(headers)
        A(code, error) == Answer("jobDownload", user, 0, jobId, fileName, code, error)
    IN  IF user = null THEN A(401, "Unauthorized")
        ELSE IF SelectJob(jobId, user) = <<>>
             THEN A(404, "Job not found or access denied")
        ELSE LET s == ServeFile(user, jobId, fileName)
             IN  [A(s.code, s.error) EXCEPT !.file = s.file]

\* The job ids and file names a caller may ask for: every job of the store
\* and one that does not exist; every output name of the store, as the
\* download URL spells it, and one that no record carries.
AskJobIds == 1..(Len(jobs) + 1)
AskNames ==
    ({encodeURIComponent(file_names[k].output_file_name) : k \in 1..Len(file_names)}
        \ {Empty}) \cup {<<"x">>}

\* Query, removing the file it serves.
QueryConsuming ==
    /\ reply = NoReply
    /\ \/ \E headers \in AuthHeaders, jobId \in AskJobIds :
             reply' = GetJob(headers, jobId)
       \/ \E headers \in AuthHeaders, userId \in UserIds, jobId \in AskJobIds,
             fileName \in AskNames :
             reply' = GetDownload(headers, userId, jobId, fileName)
       \/ \E headers \in AuthHeaders, jobId \in AskJobIds, fileName \in AskNames :
             reply' = GetJobDownload(headers, jobId, fileName)
    /\ outputs' = outputs \ Range(reply'.file)
    /\ UNCHANGED <<jobs, file_names, lastRowid, dirs, uploads, uuids, calls,
                   quota, faults, pc, loc, resp, registry>>

\* One query at a time: the answer is read before the next one is asked.
Query ==
    /\ reply = NoReply
    /\ \/ \E headers \in AuthHeaders, jobId \in AskJobIds :
             reply' = GetJob(headers, jobId)
       \/ \E headers \in AuthHeaders, userId \in UserIds, jobId \in AskJobIds,
             fileName \in AskNames :
             reply' = GetDownload(headers, userId, jobId, fileName)
       \/ \E headers \in AuthHeaders, jobId \in AskJobIds, fileName \in AskNames :
             reply' = GetJobDownload(headers, jobId, fileName)
    /\ UNCHANGED <<jobs, file_names, lastRowid, dirs, uploads, outputs, uuids, calls,
                   quota, faults, pc, loc, resp, registry>>

QueryEnd ==
    /\ reply # NoReply
    /\ reply' = NoReply
    /\ UNCHANGED <<jobs, file_names, lastRowid, dirs, uploads, outputs, uuids, calls,
                   quota, faults, pc, loc, resp, registry>>

\* The userId segments a caller may write: the users' ids, an id followed by
\* a letter, and a word.
AskUserIds == { <<"1">>, <<"2">>, <<"1", "x">>, <<"x">> }

QueryLegacy ==
    /\ reply = NoReply
    /\ \E headers \in AuthHeaders, userId \in AskUserIds, jobId \in AskJobIds,
          fileName \in AskNames :
          reply' = GetDownload(headers, parseInt(userId), jobId, fileName)
    /\ UNCHANGED <<jobs, file_names, lastRowid, dirs, uploads, outputs, uuids, calls,
                   quota, faults, pc, loc, resp, registry>>

(***************************************************************************)
(* SpecApi: the whole API, conversions one after the other.                *)
(***************************************************************************)
InitApi == InitWith(MaxApiFiles, MaxFaults)

NextApi == Convert({1}) \/ Prune \/ Query \/ QueryEnd

SpecApi == InitApi /\ [][NextApi]_vars

(***************************************************************************)
(* SpecBackend: conversions one after the other, done by the libreoffice   *)
(* converter step by step.                                                 *)
(***************************************************************************)
NextBackend ==
    \/ \E headers \in AuthHeaders, n \in 0..quota, convertTo \in ConvertTos :
          ConvertBegin(1, headers, n, convertTo)
    \/ ConvertMkdir(1)
    \/ \E file \in Files : ConvertNextFile(1, file)
    \/ ConvertMaterialized(1)
    \/ LibreOfficeRan(1)
    \/ LibreOfficeLooked(1)
    \/ LibreOfficeMoved(1)
    \/ LibreOfficeListed(1)
    \/ ConvertFinish(1)
    \/ ConvertEnd(1)
    \/ Prune

SpecBackend == Init /\ [][NextBackend]_vars

(***************************************************************************)
(* The older POST /convert (src/pages/api.tsx): the output file is named    *)
(* after the input file with only its extension replaced, without a UUID.  *)
(* A file of that revision has a name and content.                         *)
(***************************************************************************)
ConvertMaterializedOlder(r) ==
    /\ pc[r] = "materialize"
    /\ loc[r].file.kind = "content"
    /\ LET l == loc[r]
           filePath == Path(l.userId, l.jobIdValue, l.fileName)
           normalizedConvertTo == normalizeFiletype(loc[r].convertTo)
           fileTypeOrig == SplitPop(l.fileName)
           fileType == normalizeFiletype(fileTypeOrig)
           newFileExt == normalizeOutputFiletype(normalizedConvertTo)
           newFileName == ReplaceLast(l.fileName, fileTypeOrig, newFileExt)
           targetPath == Path(l.userId, l.jobIdValue, newFileName)
       IN  /\ uploads' = uploads \cup {filePath}
           /\ loc' = [loc EXCEPT ![r].newFileName = newFileName]
           /\ calls' = calls \cup {Call(l.jobIdValue, l.i + 1, filePath, fileType,
                                         normalizedConvertTo, targetPath,
                                         l.converterName, "running")}
           /\ pc' = [pc EXCEPT ![r] = "convert"]
    /\ reply' = NoReply
    /\ registry' = registry
    /\ UNCHANGED <<jobs, file_names, lastRowid, dirs, outputs, uuids, quota, faults, resp>>

(***************************************************************************)
(* SpecRename: the libreoffice converter called with the output paths of   *)
(* both revisions of POST /convert, for files with a name and content,     *)
(* without faults of the store or the disk.                                *)
(***************************************************************************)
RenameFiles == {f \in Files : f.kind = "content" /\ sanitize(f.name) # Empty}

InitRename == InitWith(MaxFiles, 0)

NextRename ==
    \/ \E headers \in AuthHeaders, n \in 0..quota, convertTo \in ConvertTos :
          ConvertBegin(1, headers, n, convertTo)
    \/ ConvertMkdir(1)
    \/ \E file \in RenameFiles : ConvertNextFile(1, file)
    \/ ConvertMaterialized(1)
    \/ ConvertMaterializedOlder(1)
    \/ LibreOfficeRan(1)
    \/ LibreOfficeLooked(1)
    \/ LibreOfficeMoved(1)
    \/ LibreOfficeListed(1)
    \/ ConvertFinish(1)
    \/ ConvertEnd(1)

SpecRename == InitRename /\ [][NextRename]_vars

(***************************************************************************)
(* SpecUrls: one-file requests over names the download URL escapes, the    *)
(* owner then asking for the URLs of the response.                         *)
(***************************************************************************)
UrlNames ==
    { <<"a", ".", "d">>,
      <<"x", " ", "y", ".", "d">>,          \* a space
      <<"a", "%", ".", "d">>,               \* a percent sign
      <<"a", "%", "2", "0", ".", "d">> }    \* a name that reads like an escape

\* The caller follows a downloadUrl of the response with their credentials.
QueryUrl ==
    /\ reply = NoReply
    /\ pc[1] = "done"
    /\ \E k \in 1..Len(resp[1].results), headers \in AuthHeaders :
          /\ resp[1].results[k].downloadUrl # NoUrl
          /\ authenticateUser(headers) = loc[1].userId
          /\ reply' = GetJobDownload(headers,
                                     resp[1].results[k].downloadUrl.jobId,
                                     resp[1].results[k].downloadUrl.fileName)
    /\ UNCHANGED <<jobs, file_names, lastRowid, dirs, uploads, outputs, uuids, calls,
                   quota, faults, pc, loc, resp, registry>>

NextUrls ==
    \/ \E headers \in {Basic("a", "pa"), Basic("b", "pb")} :
          quota >= 1 /\ ConvertBegin(1, headers, 1, <<"p">>)
    \/ ConvertMkdir(1)
    \/ \E name \in UrlNames :
          ConvertNextFile(1, [name |-> name, kind |-> "content"])
    \/ ConvertMaterialized(1)
    \/ ConvertReturned(1)
    \/ ConvertFinish(1)
    \/ ConvertEnd(1)
    \/ Prune
    \/ QueryUrl
    \/ QueryEnd

SpecUrls == InitApi /\ [][NextUrls]_vars

(***************************************************************************)
(* SpecLegacy: the legacy download endpoint, conversions one after the     *)
(* other.                                                                  *)
(***************************************************************************)
NextLegacy == Convert({1}) \/ Prune \/ QueryLegacy \/ QueryEnd

SpecLegacy == InitApi /\ [][NextLegacy]_vars

(***************************************************************************)
(* SpecLoad: conversions in flight together.                               *)
(***************************************************************************)
NextLoad == Convert(Reqs) \/ Prune

SpecLoad == Init /\ [][NextLoad]_vars

(***************************************************************************)
(* SpecJob: one request of MaxJobFiles files, in an environment without    *)
(* faults: whatever fails, fails for a reason of the file.                 *)
(***************************************************************************)
InitJob == InitWith(MaxJobFiles, 0)

NextJob ==
    \/ \E headers \in AuthHeaders, convertTo \in ConvertTos :
          ConvertBegin(1, headers, quota, convertTo)
    \/ ConvertMkdir(1)
    \/ \E file \in Files : ConvertNextFile(1, file)
    \/ ConvertMaterialized(1)
    \/ ConvertReturned(1)
    \/ ConvertFinish(1)
    \/ ConvertEnd(1)

SpecJob == InitJob /\ [][NextJob]_vars

(***************************************************************************)
(* SpecNames: one-file requests over a larger choice of file names and     *)
(* target extensions, in an environment without faults: what the handler   *)
(* makes of a name.                                                        *)
(***************************************************************************)
ReportDocxDocx ==
    <<"r", "e", "p", "o", "r", "t", ".", "d", "o", "c", "x", ".", "d", "o", "c", "x">>
ReportDocxPdf ==
    <<"r", "e", "p", "o", "r", "t", ".", "d", "o", "c", "x", ".", "p", "d", "f">>
Pdf == <<"p", "d", "f">>

NameSamples ==
    { ReportDocxDocx,
      <<"d", ".", "d">>,                 \* the extension is also the base name
      <<"d", "d">>,                      \* no dot: the whole name is the extension
      <<"a", ".", "j", "p", "g">>,       \* an extension normalizeFiletype rewrites
      <<"x", " ", "y", ".", "d">>,       \* a character the download URL escapes
      <<"a", ":", ".", "d", ".">> }      \* characters sanitize removes
TargetSamples == { Pdf, <<"j", "p", "e", "g">>, <<"d">> }

InitNames == InitWith(MaxNameFiles, 0)

NextNames ==
    \/ \E convertTo \in TargetSamples :
          quota >= 1 /\ ConvertBegin(1, Basic("a", "pa"), 1, convertTo)
    \/ ConvertMkdir(1)
    \/ \E name \in NameSamples :
          ConvertNextFile(1, [name |-> name, kind |-> "content"])
    \/ ConvertMaterialized(1)
    \/ ConvertReturned(1)
    \/ ConvertFinish(1)
    \/ ConvertEnd(1)

SpecNames == InitNames /\ [][NextNames]_vars

(***************************************************************************)
(* The format endpoints.  A JavaScript object is the sequence of its       *)
(* entries [key, value] in insertion order; Array.prototype.sort() without *)
(* a comparator orders strings by their code units.                        *)
(***************************************************************************)
CodeUnits == <<".", "_", "a", "c", "d", "e", "f", "g", "j", "o", "p", "x", "y", "z">>
CodeUnit(c) == CHOOSE k \in 1..Len(CodeUnits) : CodeUnits[k] = c

RECURSIVE Before(_, _)
Before(a, b) ==
    IF b = Empty THEN FALSE
    ELSE IF a = Empty THEN TRUE
    ELSE IF Head(a) # Head(b) THEN CodeUnit(Head(a)) < CodeUnit(Head(b))
    ELSE Before(Tail(a), Tail(b))

sort(list) == SortSeq(list, Before)

Entry(key, value) == [key |-> key, value |-> value]
Keys(object) == [k \in 1..Len(object) |-> object[k].key]

\* getAllTargets(): converter name -> the extensions it writes.
getAllTargets == [k \in 1..Len(registry) |-> Entry(registry[k].name, registry[k].outputs)]

\* getAllInputs(converterName): the extensions the converter reads.
getAllInputs(converterName) ==
    LET found == {k \in 1..Len(registry) : registry[k].name = converterName}
    IN  IF found = {} THEN <<>> ELSE registry[CHOOSE k \in found : TRUE].inputs

\* getPossibleTargets(from): converter name -> the extensions it writes, for
\* the converters that read from.
getPossibleTargets(from) ==
    LET accepts == SelectSeq(registry,
                             LAMBDA c : normalizeFiletype(from) \in Range(c.inputs))
    IN  [k \in 1..Len(accepts) |-> Entry(accepts[k].name, accepts[k].outputs)]

\* PushUnique, without the includes() test.
PushAlways(object, key, converterName) ==
    LET at == {k \in 1..Len(object) : object[k].key = key}
    IN  IF at = {} THEN Append(object, Entry(key, <<converterName>>))
        ELSE LET k == CHOOSE x \in at : TRUE
             IN  [object EXCEPT ![k].value = Append(@, converterName)]

\* if (!all[key]) all[key] = []; if (!all[key].includes(name)) all[key].push(name)
PushUnique(object, key, converterName) ==
    LET at == {k \in 1..Len(object) : object[k].key = key}
    IN  IF at = {} THEN Append(object, Entry(key, <<converterName>>))
        ELSE LET k == CHOOSE x \in at : TRUE
             IN  IF converterName \in Range(object[k].value) THEN object
                 ELSE [object EXCEPT ![k].value = Append(@, converterName)]

\* for (const format of formats) { ... push ... }
RECURSIVE PushAll(_, _, _)
PushAll(object, formats, converterName) ==
    IF formats = <<>> THEN object
    ELSE PushAll(PushUnique(object, Head(formats), converterName), Tail(formats),
                 converterName)

\* The loop of GET /formats over the entries of getAllTargets(), from entry k.
RECURSIVE CollectFormats(_, _)
CollectFormats(k, acc) ==
    IF k > Len(getAllTargets) THEN acc
    ELSE LET converterName == getAllTargets[k].key
             targets == getAllTargets[k].value
             inputs == getAllInputs(converterName)
         IN  CollectFormats(k + 1,
                 [converterMappings |->
                      Append(acc.converterMappings,
                             Entry(converterName,
                                   [inputs |-> inputs, outputs |-> targets])),
                  allInputs |-> PushAll(acc.allInputs, inputs, converterName),
                  allOutputs |-> PushAll(acc.allOutputs, targets, converterName)])

\* GET /formats
GetFormats(headers) ==
    LET user == authenticateUser(headers)
        A(code, error) == Answer("formats", user, 0, 0, Empty, code, error)
        all == CollectFormats(1, [converterMappings |-> <<>>, allInputs |-> <<>>,
                                  allOutputs |-> <<>>])
    IN  IF user = null THEN A(401, "Unauthorized")
        ELSE [A(200, "") EXCEPT !.formats =
                 << [converters |-> all.converterMappings,
                     supportedInputs |-> sort(Keys(all.allInputs)),
                     supportedOutputs |-> sort(Keys(all.allOutputs)),
                     inputsByConverter |-> all.allInputs,
                     outputsByConverter |-> all.allOutputs] >>]

\* for (const target of targets) if (!flatTargets.includes(target)) push
RECURSIVE Flatten(_, _)
Flatten(flatTargets, targets) ==
    IF targets = <<>> THEN flatTargets
    ELSE Flatten(IF Head(targets) \in Range(flatTargets) THEN flatTargets
                 ELSE Append(flatTargets, Head(targets)),
                 Tail(targets))

RECURSIVE FlattenAll(_, _, _)
FlattenAll(k, possibleTargets, flatTargets) ==
    IF k > Len(possibleTargets) THEN flatTargets
    ELSE FlattenAll(k + 1, possibleTargets,
                    Flatten(flatTargets, possibleTargets[k].value))

\* GetFormatsFrom, without the answer for an extension no converter reads.
GetFormatsFromAlways(headers, from) ==
    LET user == authenticateUser(headers)
        A(code, error) == [Answer("formatsFrom", user, 0, 0, Empty, code, error)
                              EXCEPT !.from = from]
        possibleTargets == getPossibleTargets(from)
    IN  IF user = null THEN A(401, "Unauthorized")
        ELSE [A(200, "") EXCEPT !.formats =
                 << [availableTargets |-> sort(FlattenAll(1, possibleTargets, <<>>)),
                     converterTargets |-> possibleTargets] >>]

\* GET /formats/:from
GetFormatsFrom(headers, from) ==
    LET user == authenticateUser(headers)
        A(code, error) == [Answer("formatsFrom", user, 0, 0, Empty, code, error)
                              EXCEPT !.from = from]
        possibleTargets == getPossibleTargets(from)
    IN  IF user = null THEN A(401, "Unauthorized")
        ELSE IF Len(possibleTargets) = 0
             THEN A(404, "No converters support the format")
        ELSE [A(200, "") EXCEPT !.formats =
                 << [availableTargets |-> sort(FlattenAll(1, possibleTargets, <<>>)),
                     converterTargets |-> possibleTargets] >>]

\* GET /test: no authenticateUser call.  The answer keeps, as caller, the user
\* the request's credentials belong to (null without valid credentials).
GetTest(headers) ==
    [Answer("test", authenticateUser(headers), 0, 0, Empty, 200, "")
        EXCEPT !.formats = << [message |-> "API is working!"] >>]

\* The extensions a caller may ask about: two that converters may read and
\* one that none reads.
Xyz == <<"x", "y", "z">>
AskFroms == { <<"d">>, <<"p">>, Xyz }

QueryFormats ==
    /\ reply = NoReply
    /\ \/ \E headers \in AuthHeaders : reply' = GetTest(headers)
       \/ \E headers \in AuthHeaders : reply' = GetFormats(headers)
       \/ \E headers \in AuthHeaders, from \in AskFroms :
             reply' = GetFormatsFrom(headers, from)
    /\ UNCHANGED <<jobs, file_names, lastRowid, dirs, uploads, outputs, uuids, calls,
                   quota, faults, pc, loc, resp, registry>>

(***************************************************************************)
(* The registries of the runs that are about the converters: up to         *)
(* MaxConverters converters, each reading and writing one of a few lists   *)
(* of extensions (one with a single extension, one out of alphabetical     *)
(* order, one naming an extension twice).                                  *)
(***************************************************************************)
ConverterNames == <<"libreoffice", "pandoc", "ffmpeg", "vips", "calibre">>
FormatLists == { <<<<"d">>>>, <<<<"p">>, <<"d">>>>, <<<<"p">>, <<"p">>>> }

Registries ==
    UNION { { [k \in 1..n |-> Converter(ConverterNames[k], io[k][1], io[k][2])] :
                io \in [1..n -> FormatLists \X FormatLists] } :
            n \in 1..MaxConverters }

(***************************************************************************)
(* SpecDispatch: one-file requests that may name a converter, over every   *)
(* registry, in an environment without faults.                             *)
(***************************************************************************)
InitDispatch == \E converters \in Registries : InitAs(MaxDispatchFiles, 0, converters)

ConverterChoices == {NoName} \cup Range(SubSeq(ConverterNames, 1, 2))

NextDispatch ==
    \/ \E converterName \in ConverterChoices :
          /\ quota >= 1
          /\ ConvertBeginWith(1, Basic("a", "pa"), 1, <<"p">>, converterName)
    \/ ConvertMkdir(1)
    \/ ConvertNextFile(1, [name |-> <<"a", ".", "d">>, kind |-> "content"])
    \/ ConvertMaterialized(1)
    \/ ConvertReturned(1)
    \/ ConvertFinish(1)
    \/ ConvertEnd(1)

SpecDispatch == InitDispatch /\ [][NextDispatch]_vars

(***************************************************************************)
(* SpecHang: conversions one after the other, by converters that may block *)
(* for good.  Every step of the handler that can be taken is taken in the  *)
(* end.                                                                    *)
(***************************************************************************)
InitHang == InitWith(MaxFiles, 0)

NextHang == Convert({1}) \/ ConvertHung(1)

SpecHang == InitHang /\ [][NextHang]_vars /\ WF_vars(Convert({1}))

(***************************************************************************)
(* SpecQueries: every endpoint of the API, conversions one after the       *)
(* other.                                                                  *)
(***************************************************************************)
NextQueries ==
    Convert({1}) \/ Prune \/ Query \/ QueryLegacy \/ QueryFormats \/ QueryEnd

SpecQueries == InitApi /\ [][NextQueries]_vars

(***************************************************************************)
(* SpecLive: SpecHang without converters that block and without faults;    *)
(* a handler that can take a step takes it in the end (the event loop      *)
(* resumes every await that has settled).                                  *)
(***************************************************************************)
NextLive == Convert({1})

SpecLive == InitHang /\ [][NextLive]_vars /\ WF_vars(NextLive)

(***************************************************************************)
(* SpecFormats: the format endpoints over every registry.                  *)
(***************************************************************************)
InitFormats == \E converters \in Registries : InitAs(0, 0, converters)

NextFormats == QueryFormats \/ QueryEnd

SpecFormats == InitFormats /\ [][NextFormats]_vars

(***************************************************************************)
(* The properties.                                                         *)
(***************************************************************************)
JobIds == 1..Len(jobs)

\* The calls of mainConverter for a job that returned "Done".
DoneCalls(jobId) == {c \in calls : c.job = jobId /\ c.result = "Done"}

\* What a caller sees of an answer: the status code and the body.
Response(answer) == <<answer.code, answer.error, answer.job, answer.files, answer.file>>

\* The headers of an authenticated caller.
HeadersOf(user) == CHOOSE headers \in AuthHeaders : authenticateUser(headers) = user

\* C1: a job row is created with status pending; a step changes a pending
\* status to completed or partial only, and never changes a completed or
\* partial status; so no status ever has another value, and no row is removed.
C1_StatusMachine ==
    [][ /\ Len(jobs') >= Len(jobs)
        /\ \A j \in 1..Len(jobs') :
              IF j > Len(jobs) THEN jobs'[j].status = "pending"
              ELSE /\ jobs[j].status = "pending"
                        => jobs'[j].status \in {"pending", "completed", "partial"}
                   /\ jobs[j].status # "pending" => jobs'[j].status = jobs[j].status
      ]_vars

C1_Witness ==
    \E j \in JobIds, k \in JobIds :
        jobs[j].status = "completed" /\ jobs[k].status = "partial"

\* C2: once a job is finished its status is completed exactly when the number
\* of its files that mainConverter converted ("Done") is num_files, and
\* partial otherwise, the job without one success included; the response
\* carries that count and that status.
C2_StatusRule ==
    /\ \A j \in JobIds :
          jobs[j].status # "pending" =>
              /\ jobs[j].status = "completed"
                    <=> Cardinality(DoneCalls(j)) = jobs[j].num_files
              /\ jobs[j].status # "completed" => jobs[j].status = "partial"
    /\ \A r \in Reqs :
          resp[r].code = 200 =>
              /\ resp[r].completedFiles = Cardinality(DoneCalls(resp[r].jobId))
              /\ resp[r].status = jobs[resp[r].jobId].status

C2_Witness ==
    \E j \in JobIds :
        /\ jobs[j].status = "partial"
        /\ jobs[j].num_files = 2
        /\ DoneCalls(j) = {}
        /\ \E r \in Reqs : resp[r].jobId = j /\ resp[r].completedFiles = 0

\* C3: without faults of the store or the disk, whatever happens to a file
\* (name empty after sanitize, download failed, no content, failure returned
\* or thrown by the converter) the loop goes on: the files before the current
\* one all have their row, the request ends with 200 and one row per file,
\* and file k has the "Done" row exactly when its conversion returned "Done";
\* with three files of which the second fails in the converter, the first and
\* the third have "Done" rows, the status is partial and completedFiles is 2.
C3_Isolation ==
    \A r \in Reqs :
        LET j == loc[r].jobIdValue
            rows == SelectFiles(j)
            Done(k) == \E c \in calls : c.job = j /\ c.file = k /\ c.result = "Done"
            FailedInConverter(k) ==
                \E c \in calls : /\ c.job = j /\ c.file = k
                                 /\ c.result \in FailureReasons \cup ThrownMessages
        IN  j # 0 =>
              /\ pc[r] \in {"loop", "materialize", "convert"} => Len(rows) = loc[r].i
              /\ pc[r] = "done" =>
                    /\ resp[r].code = 200
                    /\ Len(rows) = jobs[j].num_files
                    /\ \A k \in 1..Len(rows) : rows[k].status = "Done" <=> Done(k)
                    /\ resp[r].completedFiles =
                          Cardinality({k \in 1..Len(rows) : rows[k].status = "Done"})
                    /\ (jobs[j].num_files = 3 /\ Done(1) /\ FailedInConverter(2) /\ Done(3))
                          => /\ rows[1].status = "Done" /\ rows[3].status = "Done"
                             /\ jobs[j].status = "partial"
                             /\ resp[r].completedFiles = 2

C3_Witness ==
    \E r \in Reqs :
        LET j == loc[r].jobIdValue
            rows == SelectFiles(j)
        IN  /\ pc[r] = "done" /\ j # 0 /\ Len(rows) = 3
            /\ rows[1].status = "Done"
            /\ rows[2].status \in FailureReasons \cup ThrownMessages
            /\ rows[3].status = "Done"
            /\ jobs[j].status = "partial"
            /\ resp[r].completedFiles = 2

\* C4: a job that is completed or partial has num_files rows in file_names;
\* a step appends at most one row to file_names and changes or removes none.
C4_OneRecordPerFile ==
    /\ [](\A j \in JobIds :
             jobs[j].status # "pending" => Len(SelectFiles(j)) = jobs[j].num_files)
    /\ [][ /\ Len(file_names') \in {Len(file_names), Len(file_names) + 1}
           /\ \A k \in 1..Len(file_names) : file_names'[k] = file_names[k] ]_vars

C4_Witness ==
    \E j \in JobIds :
        /\ jobs[j].status = "partial"
        /\ jobs[j].num_files = 2
        /\ Len(SelectFiles(j)) = 2
        /\ SelectFiles(j)[1].status = "Done"
        /\ SelectFiles(j)[2].status # "Done"

\* C5: on both download endpoints an authenticated caller asking for a job of
\* another user gets the response, code and body, of the same request for a
\* job id that no job has; no file is served.
C5_NoLeak ==
    LET absent == Len(jobs) + 1 IN
    /\ \A headers \in AuthHeaders, jobId \in JobIds, fileName \in AskNames :
          LET user == authenticateUser(headers) IN
          (user # null /\ jobs[jobId].user_id # user) =>
              /\ Response(GetJobDownload(headers, jobId, fileName))
                    = Response(GetJobDownload(headers, absent, fileName))
              /\ \A userId \in UserIds :
                    Response(GetDownload(headers, userId, jobId, fileName))
                       = Response(GetDownload(headers, userId, absent, fileName))
    /\ (/\ reply.op \in {"download", "jobDownload"}
        /\ reply.caller # null
        /\ reply.jobId \in JobIds
        /\ jobs[reply.jobId].user_id # reply.caller)
          => /\ reply.file = <<>>
             /\ reply.code \in {403, 404}
             /\ Response(reply) =
                   Response(IF reply.op = "jobDownload"
                            THEN GetJobDownload(HeadersOf(reply.caller), absent,
                                                reply.fileName)
                            ELSE GetDownload(HeadersOf(reply.caller), reply.userId,
                                             absent, reply.fileName))

C5_Witness ==
    /\ reply.op = "jobDownload"
    /\ reply.caller # null
    /\ reply.jobId \in JobIds
    /\ jobs[reply.jobId].user_id # reply.caller
    /\ ~Malformed(reply.fileName)
    /\ Path(jobs[reply.jobId].user_id, reply.jobId, decodeURIComponent(reply.fileName))
          \in outputs
    /\ SelectFile(reply.jobId, decodeURIComponent(reply.fileName)) # <<>>
    /\ reply.code = 404

\* C6: a download answers with a file only to an authenticated caller who owns
\* the job, for a name that is the output_file_name of a row of that job, and
\* the file served is on disk at the path of (owner, job, that name), in the
\* output directory of that owner and job; a 200 always carries the file.
C6_ServedOnlyToOwner ==
    /\ reply.file # <<>> =>
          LET filePath == reply.file[1] IN
          /\ reply.op \in {"download", "jobDownload"}
          /\ reply.code = 200
          /\ reply.caller # null
          /\ reply.jobId \in JobIds
          /\ jobs[reply.jobId].user_id = reply.caller
          /\ \E k \in 1..Len(file_names) :
                /\ file_names[k].job_id = reply.jobId
                /\ file_names[k].output_file_name = decodeURIComponent(reply.fileName)
                /\ filePath = Path(reply.caller, reply.jobId,
                                   file_names[k].output_file_name)
          /\ filePath \in outputs
          /\ <<"output", filePath.user, filePath.job>> \in dirs
          /\ \A p \in 1..Len(filePath.name) : filePath.name[p] # "/"
    /\ (reply.op \in {"download", "jobDownload"} /\ reply.code = 200)
          => reply.file # <<>>

C6_Witness ==
    /\ reply.op = "jobDownload"
    /\ reply.code = 200
    /\ reply.file # <<>>
    /\ reply.file[1] \in outputs

\* C7: GET /job/:jobId answers 200 only for a job of the caller, with that job
\* row and the rows of file_names of that job; for a job of another user the
\* answer is the 404 "Job not found" of a job id that no job has, without any
\* row.
C7_JobScoped ==
    LET absent == Len(jobs) + 1 IN
    /\ \A headers \in AuthHeaders, jobId \in JobIds :
          LET user == authenticateUser(headers) IN
          (user # null /\ jobs[jobId].user_id # user) =>
              Response(GetJob(headers, jobId)) = Response(GetJob(headers, absent))
    /\ reply.op = "job" =>
          /\ reply.code = 200 =>
                /\ reply.caller # null
                /\ reply.jobId \in JobIds
                /\ jobs[reply.jobId].user_id = reply.caller
                /\ reply.job = <<jobs[reply.jobId]>>
                /\ reply.files = SelectFiles(reply.jobId)
          /\ (/\ reply.caller # null
              /\ reply.jobId \in JobIds
              /\ jobs[reply.jobId].user_id # reply.caller)
                => /\ reply.code = 404 /\ reply.error = "Job not found"
                   /\ reply.job = <<>> /\ reply.files = <<>>
          /\ \A k \in 1..Len(reply.files) :
                jobs[reply.files[k].job_id].user_id = reply.caller

C7_Witness ==
    /\ reply.op = "job"
    /\ reply.caller # null
    /\ reply.jobId \in JobIds
    /\ jobs[reply.jobId].user_id # reply.caller
    /\ SelectFiles(reply.jobId) # <<>>
    /\ reply.code = 404

\* C8: an authenticated POST /convert without files or without convertTo is
\* answered 400 in the step that receives it, and that step leaves the tables,
\* the directories, the files on disk and the calls of mainConverter as they
\* were; the handler has no job.
C8_RejectedCreatesNothing ==
    /\ [][ \A r \in Reqs, headers \in AuthHeaders, n \in 0..quota,
              convertTo \in ConvertTos :
              (/\ authenticateUser(headers) # null
               /\ (n = 0 \/ convertTo = Empty)
               /\ ConvertBegin(r, headers, n, convertTo))
                 => /\ resp'[r].code = 400
                    /\ pc'[r] = "done"
                    /\ UNCHANGED <<jobs, file_names, dirs, uploads, outputs, calls>>
         ]_vars
    /\ [](\A r \in Reqs : resp[r].code = 400 => loc[r].jobIdValue = 0)

C8_Witness ==
    /\ resp[1].code = 400
    /\ resp[1].error = "No target format specified"
    /\ jobs = <<>> /\ file_names = <<>> /\ dirs = {} /\ calls = {}

\* C9: a request whose mkdir failed is answered 500 "Failed to create job
\* directories", and a job without its pair of directories has no row in
\* file_names, no upload, no output and no call of mainConverter.
C9_MkdirFatal ==
    /\ \A r \in Reqs :
          resp[r].error = "Failed to create job directories" =>
              /\ resp[r].code = 500
              /\ pc[r] = "done"
              /\ loc[r].jobIdValue \in JobIds
              /\ <<"output", loc[r].userId, loc[r].jobIdValue>> \notin dirs
    /\ \A j \in JobIds :
          ~({<<"uploads", jobs[j].user_id, j>>, <<"output", jobs[j].user_id, j>>}
               \subseteq dirs) =>
              /\ SelectFiles(j) = <<>>
              /\ \A c \in calls : c.job # j
              /\ \A p \in uploads \cup outputs : p.job # j
              /\ \A r \in Reqs :
                    loc[r].jobIdValue = j => pc[r] \in {"mkdir", "done", "idle"}

C9_Witness ==
    \E r \in Reqs :
        /\ resp[r].error = "Failed to create job directories"
        /\ <<"uploads", loc[r].userId, loc[r].jobIdValue>> \in dirs
        /\ jobs[loc[r].jobIdValue].num_files = 2

\* C10: a request answered with a server error has left no row in jobs and no
\* row in file_names.
C10_NoPartialState ==
    \A r \in Reqs :
        resp[r].code = 500 =>
            /\ loc[r].jobIdValue \notin JobIds
            /\ SelectFiles(loc[r].jobIdValue) = <<>>

C10_Witness ==
    \E r \in Reqs :
        /\ resp[r].code = 500
        /\ loc[r].jobIdValue \in JobIds
        /\ jobs[loc[r].jobIdValue].status = "pending"
        /\ SelectFiles(loc[r].jobIdValue) # <<>>

\* The calls of mainConverter for a job that have not returned.
RunningCalls(jobId) == {c \in calls : c.job = jobId /\ c.result = "running"}

\* C11: a job has at most one call of mainConverter in flight, and it is the
\* call for the file the loop is at; while the loop is at file i + 1 the job
\* has exactly i rows in file_names, row k being the row of the k-th file; an
\* iteration starts only when no call of the job is in flight; and the step
\* that ends an iteration appends the file's row to file_names and the file's
\* entries to the end of results.
C11_Sequential ==
    /\ [](\A j \in JobIds : Cardinality(RunningCalls(j)) <= 1)
    /\ [](\A r \in Reqs :
            LET j == loc[r].jobIdValue
                rows == SelectFiles(j)
            IN  (j # 0 /\ pc[r] \in {"loop", "materialize", "convert"}) =>
                  /\ Len(rows) = loc[r].i
                  /\ pc[r] # "convert" => RunningCalls(j) = {}
                  /\ \A c \in calls :
                        c.job = j =>
                          /\ c.file \in 1..(loc[r].i + 1)
                          /\ c.result = "running" <=> c.file = loc[r].i + 1
                          /\ c.file <= Len(rows) => rows[c.file].file_name = c.filePath.name)
    /\ [][\A r \in Reqs :
            LET old == loc[r].results
                new == loc'[r].results
            IN  (new # old /\ pc'[r] \notin {"done", "idle"}) =>
                  /\ Len(new) > Len(old)
                  /\ SubSeq(new, 1, Len(old)) = old
                  /\ loc'[r].i = loc[r].i + 1
                  /\ Len(file_names') = Len(file_names) + 1
                  /\ file_names'[Len(file_names')].job_id = loc[r].jobIdValue
                  /\ \A k \in (Len(old) + 1)..Len(new) :
                        new[k].fileName = file_names'[Len(file_names')].file_name
       ]_vars

C11_Witness ==
    \E r \in Reqs :
        LET j == loc[r].jobIdValue IN
        /\ pc[r] = "convert" /\ loc[r].i = 1
        /\ Len(SelectFiles(j)) = 1 /\ Len(loc[r].results) = 1
        /\ \E c \in RunningCalls(j) : c.file = 2
        /\ \E c \in calls : c.job = j /\ c.file = 1 /\ c.result # "running"

\* C12: a file named "report.docx.docx" converted to pdf gets the output file
\* name "report.docx.pdf": in the call of mainConverter, in the row of
\* file_names and in the result entry.
C12_ReportDocxPdf ==
    /\ \A c \in calls :
          (c.filePath.name = ReportDocxDocx /\ c.convertTo = Pdf)
             => c.targetPath.name = ReportDocxPdf
    /\ \A k \in 1..Len(file_names) :
          (/\ file_names[k].file_name = ReportDocxDocx
           /\ file_names[k].status = "Done"
           /\ loc[1].convertTo = Pdf)
             => file_names[k].output_file_name = ReportDocxPdf

C12_Witness ==
    \E k \in 1..Len(file_names) :
        /\ file_names[k].file_name = ReportDocxDocx
        /\ file_names[k].status = "Done"
        /\ file_names[k].output_file_name = randomUUID(1) \o <<"_">> \o ReportDocxPdf

\* C13: without faults of the store or the disk, when mainConverter returns a
\* failure text or throws an Error for file k of a job, row k of the job has
\* exactly that text (the Error's message) as status, entry k of results has
\* it as error with status "error", and the loop goes on: the request ends
\* with one row per file.
C13_ReasonVerbatim ==
    \A r \in Reqs :
        LET j == loc[r].jobIdValue
            rows == SelectFiles(j)
            results == IF pc[r] = "done" THEN resp[r].results ELSE loc[r].results
        IN  j # 0 =>
              /\ \A c \in calls :
                    (c.job = j /\ c.result \notin {"running", "Done"}) =>
                       /\ c.result \in FailureReasons \cup ThrownMessages
                       /\ c.file <= Len(rows)
                       /\ rows[c.file].status = c.result
                       /\ c.file <= Len(results)
                       /\ results[c.file].status = "error"
                       /\ results[c.file].error = c.result
                       /\ pc[r] \in {"loop", "materialize", "convert", "done"}
              /\ pc[r] = "done" => Len(rows) = jobs[j].num_files

C13_Witness ==
    \E r \in Reqs :
        LET j == loc[r].jobIdValue
            rows == SelectFiles(j)
        IN  /\ pc[r] = "done" /\ j # 0 /\ Len(rows) = 3
            /\ rows[1].status \in FailureReasons
            /\ rows[2].status \in ThrownMessages
            /\ rows[3].status = "Done"
            /\ resp[r].results[1].error = rows[1].status
            /\ resp[r].results[2].error = rows[2].status

\* C14: when a row of the caller's job names an output file that is not on
\* disk, both download endpoints answer the owner 404 "File not found on disk"
\* without a file.
C14_MissingOnDisk ==
    /\ \A k \in 1..Len(file_names) :
          LET row == file_names[k]
              owner == jobs[row.job_id].user_id
              fileName == encodeURIComponent(row.output_file_name)
              gone == LET a == GetJobDownload(HeadersOf(owner), row.job_id, fileName)
                          b == GetDownload(HeadersOf(owner), owner, row.job_id, fileName)
                      IN  /\ a.code = 404 /\ a.error = "File not found on disk"
                          /\ a.file = <<>>
                          /\ b.code = 404 /\ b.error = "File not found on disk"
                          /\ b.file = <<>>
          IN  (/\ row.output_file_name # Empty
               /\ Path(owner, row.job_id, row.output_file_name) \notin outputs) => gone
    /\ (/\ reply.op \in {"download", "jobDownload"}
        /\ reply.caller # null
        /\ reply.op = "download" => reply.userId = reply.caller
        /\ SelectJob(reply.jobId, reply.caller) # <<>>
        /\ ~Malformed(reply.fileName)
        /\ SelectFile(reply.jobId, decodeURIComponent(reply.fileName)) # <<>>
        /\ Path(reply.caller, reply.jobId, decodeURIComponent(reply.fileName))
              \notin outputs)
          => /\ reply.code = 404
             /\ reply.error = "File not found on disk"
             /\ reply.file = <<>>

C14_Witness ==
    /\ reply.op = "download"
    /\ reply.code = 404
    /\ reply.error = "File not found on disk"
    /\ \E row \in {file_names[k] : k \in 1..Len(file_names)} :
          /\ row.job_id = reply.jobId
          /\ row.output_file_name = decodeURIComponent(reply.fileName)
          /\ row.status = "Done"

\* C15: when the request names a converter, a call of mainConverter for it is
\* done by that converter or by none; when the named converter does not take
\* the file's pair, no converter does the call, nothing is written at the
\* target path, and the file gets a failure row and a failure entry, whatever
\* other converters take the pair.
C15_NoFallback ==
    \A r \in Reqs :
        LET j == loc[r].jobIdValue
            converterName == loc[r].converterName
            rows == SelectFiles(j)
            results == IF pc[r] = "done" THEN resp[r].results ELSE loc[r].results
            Named(c) == \E k \in 1..Len(registry) :
                           /\ registry[k].name = converterName
                           /\ Supports(registry[k], c.fileType, c.convertTo)
        IN  (j # 0 /\ converterName # NoName) =>
               \A c \in calls :
                  c.job = j =>
                    /\ c.converter \in {converterName, NoConverter}
                    /\ ~Named(c) =>
                          /\ c.converter = NoConverter
                          /\ c.result # "Done"
                          /\ c.targetPath \notin outputs
                          /\ c.result # "running" =>
                                /\ rows[c.file].status # "Done"
                                /\ results[c.file].status = "error"

C15_Witness ==
    \E r \in Reqs :
        /\ pc[r] = "done"
        /\ loc[r].converterName = "libreoffice"
        /\ \E k \in 1..Len(registry) :
              /\ registry[k].name = "pandoc"
              /\ Supports(registry[k], <<"d">>, <<"p">>)
        /\ \E c \in calls :
              /\ c.job = loc[r].jobIdValue
              /\ c.converter = NoConverter
              /\ c.result = Unsupported
        /\ resp[r].status = "partial"

Extensions ==
    UNION {Range(registry[k].inputs) \cup Range(registry[k].outputs) :
           k \in 1..Len(registry)} \cup {Xyz}

\* The names of the converters that read (write) x, in registry order.
Readers(x) ==
    LET sel == SelectSeq(registry, LAMBDA c : x \in Range(c.inputs))
    IN  [k \in 1..Len(sel) |-> sel[k].name]

Writers(x) ==
    LET sel == SelectSeq(registry, LAMBDA c : x \in Range(c.outputs))
    IN  [k \in 1..Len(sel) |-> sel[k].name]

Lookup(object, key) ==
    LET at == {k \in 1..Len(object) : object[k].key = key}
    IN  IF at = {} THEN <<>> ELSE object[CHOOSE k \in at : TRUE].value

\* list holds exactly the members of set, each once, in ascending order.
IsSortedSet(list, set) ==
    /\ Range(list) = set
    /\ Len(list) = Cardinality(set)
    /\ \A i, j \in 1..Len(list) : i < j => Before(list[i], list[j])

IsMatrix(object) ==
    /\ Cardinality(Range(Keys(object))) = Len(object)
    /\ \A k \in 1..Len(object) : object[k].value # <<>>

\* C17: whenever GET /formats answers an authenticated caller, for every
\* extension x inputsByConverter[x] (outputsByConverter[x]) lists exactly the
\* converters whose inputs (outputs) contain x, each once and in registry
\* order, no extension is listed twice or with no converter, and
\* supportedInputs (supportedOutputs) is the ascending list, without
\* repetition, of the extensions some converter reads (writes).
C17_Matrix ==
    (reply.op = "formats" /\ reply.code = 200) =>
        LET f == reply.formats[1]
        IN  /\ IsMatrix(f.inputsByConverter)
            /\ IsMatrix(f.outputsByConverter)
            /\ \A x \in Extensions :
                  /\ Lookup(f.inputsByConverter, x) = Readers(x)
                  /\ Lookup(f.outputsByConverter, x) = Writers(x)
            /\ IsSortedSet(f.supportedInputs,
                           {x \in Extensions : Readers(x) # <<>>})
            /\ IsSortedSet(f.supportedOutputs,
                           {x \in Extensions : Writers(x) # <<>>})

\* GET /formats has answered over two converters that share an extension,
\* one naming it twice and the other naming its extensions out of order.
C17_Witness ==
    /\ reply.op = "formats"
    /\ reply.code = 200
    /\ Len(registry) = 2
    /\ registry[1].inputs = << <<"p">>, <<"d">> >>
    /\ registry[2].inputs = << <<"p">>, <<"p">> >>
    /\ Lookup(reply.formats[1].inputsByConverter, <<"p">>) = <<"libreoffice", "pandoc">>
    /\ reply.formats[1].supportedInputs = << <<"d">>, <<"p">> >>

\* C18: GET /formats/:from, asked by an authenticated caller about an
\* extension no converter reads, answers 404 with the no-converter error and
\* no target list; asked about an extension some converter reads, it answers
\* 200, converterTargets holds the target list of each converter that reads
\* it, and availableTargets is the non-empty ascending list, without
\* repetition, of the extensions in those lists.
C18_FromTargets ==
    (reply.op = "formatsFrom" /\ reply.code # 401) =>
        LET accepts == SelectSeq(registry,
                           LAMBDA c : normalizeFiletype(reply.from) \in Range(c.inputs))
        IN  IF accepts = <<>>
            THEN /\ reply.code = 404
                 /\ reply.error = "No converters support the format"
                 /\ reply.formats = <<>>
            ELSE /\ reply.code = 200
                 /\ reply.error = ""
                 /\ LET f == reply.formats[1]
                    IN  /\ f.converterTargets =
                              [k \in 1..Len(accepts) |->
                                  Entry(accepts[k].name, accepts[k].outputs)]
                        /\ f.availableTargets # <<>>
                        /\ IsSortedSet(f.availableTargets,
                               UNION {Range(f.converterTargets[k].value) :
                                      k \in 1..Len(f.converterTargets)})

\* An authenticated caller has asked about "xyz", which no converter reads,
\* and got 404.
C18_Witness ==
    /\ reply.op = "formatsFrom"
    /\ reply.from = Xyz
    /\ reply.code = 404
    /\ reply.caller # null
    /\ registry # <<>>


(***************************************************************************)
(* A converter that never returns.                                         *)
(***************************************************************************)
HungCalls == {c \in calls : c.result = Never}

FailureRows(c) ==
    {k \in 1..Len(file_names) :
        /\ file_names[k].job_id = c.job
        /\ file_names[k].file_name = c.filePath.name
        /\ file_names[k].status # "Done"}

\* C19: a call of a converter that never returns leads to a failure record
\* of the file and to a job that is no longer pending.
C19_HangIsFailure ==
    (HungCalls # {}) ~>
        (\A c \in HungCalls : FailureRows(c) # {} /\ jobs[c.job].status # "pending")

\* The first call of a job of two files never returns: the job is pending,
\* the file has no record and the second file has not been looked at.
C19_Witness ==
    \E c \in HungCalls :
        /\ c.file = 1
        /\ jobs[c.job].num_files = 2
        /\ jobs[c.job].status = "pending"
        /\ FailureRows(c) = {}
        /\ pc[1] = "convert"
        /\ loc[1].i = 0


(***************************************************************************)
(* No retry.                                                               *)
(***************************************************************************)
\* The calls of mainConverter made for file k of job j.
Attempts(j, k) == {c \in calls : c.job = j /\ c.file = k}

\* C20: no file of a job is handed to mainConverter twice; while a handler
\* is in its loop, the files before its cursor each have their one record
\* and no call of theirs is running, the file at the cursor has no record,
\* and it has a call only while the handler awaits that call, so that a file
\* that has been written to disk, converted or failed is never taken up
\* again.
C20_NoRetry ==
    /\ \A c \in calls : Attempts(c.job, c.file) = {c}
    /\ \A r \in Reqs :
          pc[r] \in {"loop", "materialize", "convert"} =>
              LET j == loc[r].jobIdValue
                  i == loc[r].i
              IN  /\ Len(SelectFiles(j)) = i
                  /\ \A c \in calls :
                        c.job = j =>
                            /\ c.file <= i + 1
                            /\ c.file <= i => c.result # "running"
                            /\ c.file = i + 1 => pc[r] = "convert" /\ c.result = "running"

\* The converter threw on the first file of a job and the handler has gone
\* on to the second file, which is now being converted.
C20_Witness ==
    \E c, d \in calls :
        /\ c.job = d.job
        /\ c.file = 1
        /\ c.result \in ThrownMessages
        /\ d.file = 2
        /\ d.result = "running"
        /\ Cardinality({e \in calls : e.job = c.job}) = 2
        /\ Len(SelectFiles(c.job)) = 1


(***************************************************************************)
(* Authentication of the endpoints.                                        *)
(***************************************************************************)
\* C21: every answer to a request without valid credentials is 401
\* Unauthorized and carries no format, job or file data.
C21_AllRequireAuth ==
    (reply.op # "" /\ reply.caller = null) =>
        /\ reply.code = 401
        /\ reply.error = "Unauthorized"
        /\ reply.formats = <<>>
        /\ reply.job = <<>>
        /\ reply.files = <<>>
        /\ reply.file = <<>>

\* GET /test has answered 200 with its message to a request without valid
\* credentials.
C21_Witness ==
    /\ reply.op = "test"
    /\ reply.caller = null
    /\ reply.code = 200
    /\ reply.formats # <<>>


(***************************************************************************)
(* The legacy download endpoint.                                           *)
(***************************************************************************)
\* C22: GET /download/:userId/:jobId/:fileName, asked by an authenticated
\* user: with a userId that is not the caller's id the answer is 403 Access
\* denied and no file, whatever the store and the disk hold; with the
\* caller's id, a job that is absent or of another user gives 404 Job not
\* found, and, for a well-formed name, a name no record of the job carries
\* gives 404 File not found and a file that is not on disk gives 404 File
\* not found on disk.
C22_LegacyDownload ==
    (reply.op = "download" /\ reply.caller # null) =>
        IF reply.userId # reply.caller
        THEN reply.code = 403 /\ reply.error = "Access denied" /\ reply.file = <<>>
        ELSE IF reply.jobId \notin JobIds \/ jobs[reply.jobId].user_id # reply.caller
        THEN reply.code = 404 /\ reply.error = "Job not found" /\ reply.file = <<>>
        ELSE ~Malformed(reply.fileName) =>
                LET name == decodeURIComponent(reply.fileName)
                    rows == {k \in 1..Len(file_names) :
                                /\ file_names[k].job_id = reply.jobId
                                /\ file_names[k].output_file_name = name}
                    onDisk == Path(reply.caller, reply.jobId, name) \in outputs
                IN  /\ rows = {} =>
                        /\ reply.code = 404
                        /\ reply.error = "File not found"
                        /\ reply.file = <<>>
                    /\ (rows # {} /\ ~onDisk) =>
                        /\ reply.code = 404
                        /\ reply.error = "File not found on disk"
                        /\ reply.file = <<>>

\* User 1 asked for a file of user 2 in a job that does not exist and got
\* 403, while a job of user 1 is in the store.
C22_Witness ==
    /\ reply.op = "download"
    /\ reply.caller = 1
    /\ reply.userId = 2
    /\ reply.jobId \notin JobIds
    /\ reply.code = 403
    /\ \E j \in JobIds : jobs[j].user_id = 1


(***************************************************************************)
(* The download URLs of the response.                                      *)
(***************************************************************************)
\* The result entries a handler holds or has returned.
ResultsOf(r) == IF pc[r] = "done" THEN resp[r].results ELSE loc[r].results

\* C23: every result entry with status completed carries the download URL of
\* its output file name in its job; and when the owner of the job follows
\* the URL of a completed entry of the response while the converted file is
\* on disk, the answer is 200 with the file at the entry's output file name,
\* and a row of the job carries exactly that output file name.
C23_UrlRoundTrip ==
    /\ \A r \in Reqs : \A k \in 1..Len(ResultsOf(r)) :
          LET e == ResultsOf(r)[k]
          IN  e.status = "completed" =>
                  /\ e.outputFileName # Empty
                  /\ e.downloadUrl = [jobId |-> loc[r].jobIdValue,
                                      fileName |-> encodeURIComponent(e.outputFileName)]
    /\ (reply.op = "jobDownload" /\ pc[1] = "done") =>
          \A k \in 1..Len(resp[1].results) :
              LET e == resp[1].results[k]
                  artifact == Path(loc[1].userId, e.downloadUrl.jobId, e.outputFileName)
              IN  (/\ e.status = "completed"
                   /\ reply.jobId = e.downloadUrl.jobId
                   /\ reply.fileName = e.downloadUrl.fileName
                   /\ reply.caller = loc[1].userId
                   /\ artifact \in outputs)
                  => /\ reply.code = 200
                     /\ reply.file = <<artifact>>
                     /\ \E n \in 1..Len(file_names) :
                           /\ file_names[n].job_id = reply.jobId
                           /\ file_names[n].output_file_name = e.outputFileName

\* The owner followed the URL of a converted file whose name has a percent
\* sign and the file is on disk; the URL spells the name differently.
C23_Witness ==
    /\ reply.op = "jobDownload"
    /\ pc[1] = "done"
    /\ \E k \in 1..Len(resp[1].results) :
          LET e == resp[1].results[k]
          IN  /\ e.status = "completed"
              /\ "%" \in Range(e.outputFileName)
              /\ reply.fileName = e.downloadUrl.fileName
              /\ reply.fileName # e.outputFileName
              /\ Path(loc[1].userId, reply.jobId, e.outputFileName) \in outputs


(***************************************************************************)
(* The response of POST /convert.                                          *)
(***************************************************************************)
\* C24: a 200 response of POST /convert carries the status the job row has,
\* the job's num_files as totalFiles, the number of its completed entries as
\* completedFiles, and one result entry per submitted file in the order of
\* submission: as many entries as files, entry k naming the file that call k
\* of mainConverter was made for.
C24_ResponseConsistent ==
    \A r \in Reqs :
        (pc[r] = "done" /\ resp[r].code = 200) =>
            LET j == resp[r].jobId
                results == resp[r].results
            IN  /\ resp[r].status = jobs[j].status
                /\ resp[r].status \in {"completed", "partial"}
                /\ resp[r].totalFiles = jobs[j].num_files
                /\ resp[r].completedFiles =
                      Cardinality({k \in 1..Len(results) :
                                      results[k].status = "completed"})
                /\ Len(results) = jobs[j].num_files
                /\ \A c \in calls :
                      (c.job = j /\ c.file <= Len(results)) =>
                          results[c.file].fileName = c.filePath.name

\* A request with one file was answered 200 with two result entries: the
\* file converted and the write of its row failed.
C24_Witness ==
    \E r \in Reqs :
        /\ pc[r] = "done"
        /\ resp[r].code = 200
        /\ resp[r].totalFiles = 1
        /\ Len(resp[r].results) = 2
        /\ resp[r].results[1].status = "completed"
        /\ resp[r].results[2].status = "error"
        /\ resp[r].results[2].error = StoreError


(***************************************************************************)
(* Who writes the store.                                                   *)
(***************************************************************************)
\* file_names as it was is the beginning of file_names as it is.
RowsKept ==
    /\ Len(file_names') >= Len(file_names)
    /\ SubSeq(file_names', 1, Len(file_names)) = file_names

\* C25: no step changes the owner or num_files of a job row, removes a job
\* row, or removes or rewrites a row of file_names; and a step in which a query
\* endpoint answers (GET /test, /formats, /formats/:from, /job/:jobId, either
\* download) leaves jobs, file_names, the directories, the uploads and the
\* converted files as they were.
C25_ReadOnly ==
    [][/\ Len(jobs') >= Len(jobs)
       /\ \A j \in 1..Len(jobs) :
             /\ jobs'[j].user_id = jobs[j].user_id
             /\ jobs'[j].num_files = jobs[j].num_files
       /\ RowsKept
       /\ reply' # NoReply => UNCHANGED <<jobs, file_names, lastRowid, dirs, uploads,
                                          outputs>>]_vars

\* A download endpoint has served the converted file of a job whose status
\* has been written.
C25_Witness ==
    /\ reply.op \in {"download", "jobDownload"}
    /\ reply.code = 200
    /\ reply.file # <<>>
    /\ jobs[reply.jobId].status # "pending"
    /\ SelectFiles(reply.jobId) # <<>>


(***************************************************************************)
(* The working directories.                                                *)
(***************************************************************************)
\* The requests whose handler is at work on job j.
Handlers(j) == {r \in Reqs : pc[r] \notin {"idle", "done"} /\ loc[r].jobIdValue = j}

\* C26: every path a call of mainConverter reads or writes, every upload and
\* every converted file lies in the directory of one job, that of the job it
\* was made for, under that job's owner; so two calls of distinct jobs share
\* neither their input path nor their output path, whoever owns the jobs and
\* whatever the files are called; and a job has one handler at most, which
\* has one call in flight at most.
C26_ExclusiveDirs ==
    /\ \A c \in calls :
          /\ c.job \in JobIds
          /\ c.filePath.job = c.job /\ c.filePath.user = jobs[c.job].user_id
          /\ c.targetPath.job = c.job /\ c.targetPath.user = jobs[c.job].user_id
    /\ \A c, d \in calls :
          c.job # d.job => c.filePath # d.filePath /\ c.targetPath # d.targetPath
    /\ \A p \in uploads \cup outputs :
          /\ p.job \in JobIds
          /\ p.user = jobs[p.job].user_id
          /\ \E c \in calls : c.job = p.job /\ p \in {c.filePath, c.targetPath}
    /\ \A j \in JobIds :
          /\ Cardinality(Handlers(j)) <= 1
          /\ Cardinality(RunningCalls(j)) <= 1

\* Two jobs of the same owner are converting a file of the same name at the
\* same time.
C26_Witness ==
    \E c, d \in calls :
        /\ c.job # d.job
        /\ c.result = "running"
        /\ d.result = "running"
        /\ jobs[c.job].user_id = jobs[d.job].user_id
        /\ c.filePath.name = d.filePath.name
        /\ c.filePath \in uploads
        /\ d.filePath \in uploads


(***************************************************************************)
(* The libreoffice converter.                                              *)
(***************************************************************************)
\* The call c as the step leaves it.
After(c) == CHOOSE d \in calls' : d.targetPath = c.targetPath

C28_LeavesPending ==
    \A j \in 1..MaxFiles :
        (Len(jobs) >= j /\ jobs[j].status = "pending")
            ~> (/\ Len(jobs) >= j
                /\ jobs[j].status \in {"completed", "partial"}
                /\ pc[1] = "done"
                /\ resp[1].code = 200
                /\ resp[1].jobId = j
                /\ resp[1].status = jobs[j].status)

\* A job of two files, one of which failed, has been answered: partial.
C28_Witness ==
    /\ pc[1] = "done"
    /\ resp[1].code = 200
    /\ resp[1].totalFiles = 2
    /\ resp[1].completedFiles = 1
    /\ jobs[resp[1].jobId].status = "partial"


(***************************************************************************)
(* The order of a job's writes.                                            *)
(***************************************************************************)
\* C29: whatever is done for a file (a call of mainConverter, an upload, a
\* row of file_names) is done for a job whose row exists; a step that appends
\* a row to file_names appends it for a job that is pending before and after
\* the step, so none is appended once the status is written; and at every
\* moment a job has at most num_files rows, as many as its handler has files
\* behind it, row k being the row of the k-th file.
C29_WriteOrder ==
    /\ [](/\ \A c \in calls : c.job \in JobIds
          /\ \A p \in uploads \cup outputs : p.job \in JobIds
          /\ \A k \in 1..Len(file_names) : file_names[k].job_id \in JobIds
          /\ \A j \in JobIds :
                /\ Len(SelectFiles(j)) <= jobs[j].num_files
                /\ \A r \in Handlers(j) : Len(SelectFiles(j)) = loc[r].i
                /\ \A c \in calls :
                      (c.job = j /\ c.file <= Len(SelectFiles(j))) =>
                          SelectFiles(j)[c.file].file_name = c.filePath.name)
    /\ [][Len(file_names') > Len(file_names) =>
             LET j == Last(file_names').job_id
             IN  /\ j \in JobIds
                 /\ jobs[j].status = "pending"
                 /\ jobs'[j].status = "pending"
                 /\ Len(SelectFiles(j)) < jobs[j].num_files]_vars

\* Two jobs run at the same time: the row of a file of the second was
\* written before the row of the first job's file, both jobs pending.
C29_Witness ==
    /\ Len(file_names) = 2
    /\ file_names[1].job_id = 2
    /\ file_names[2].job_id = 1
    /\ jobs[1].status = "pending"
    /\ jobs[2].status = "pending"


(***************************************************************************)
(* The aggregate status against the rows.                                  *)
(***************************************************************************)
\* The rows of job j that carry the success marker.
DoneRows(j) == {k \in 1..Len(file_names) :
                   file_names[k].job_id = j /\ file_names[k].status = "Done"}

\* C30: a job whose status is completed has num_files rows in file_names,
\* all with status "Done"; and the completedFiles of a 200 response is the
\* number of rows of its job with status "Done".
C30_StatusMatchesRows ==
    /\ \A j \in JobIds :
          jobs[j].status = "completed" =>
              /\ Len(SelectFiles(j)) = jobs[j].num_files
              /\ Cardinality(DoneRows(j)) = jobs[j].num_files
    /\ \A r \in Reqs :
          (pc[r] = "done" /\ resp[r].code = 200) =>
              resp[r].completedFiles = Cardinality(DoneRows(resp[r].jobId))

\* A job of one file is completed and its only row carries the error of the
\* store, not "Done".
C30_Witness ==
    \E j \in JobIds :
        /\ jobs[j].status = "completed"
        /\ jobs[j].num_files = 1
        /\ Len(SelectFiles(j)) = 1
        /\ SelectFiles(j)[1].status = StoreError
        /\ \E c \in calls : c.job = j /\ c.result = "Done"


(***************************************************************************)
(* Requests interleaving.                                                  *)
(***************************************************************************)
\* The rows of job j among rows.
RowsOf(rows, j) == SelectSeq(rows, LAMBDA row : row.job_id = j)

\* The handler r takes the step.
Acts(r) == pc'[r] # pc[r] \/ loc'[r] # loc[r]

\* C31: the job id a handler holds is the id of a row of jobs with the
\* handler's user and, while it works, its number of files, and no two
\* handlers hold the same id; a step that inserts a job row leaves its id
\* with the handler that takes the step; a step that appends a row to
\* file_names appends it for the job of the handler that takes it; and a step
\* leaves the rows and the job row of every handler that does not take it as
\* they were.
C31_OwnJobOnly ==
    /\ [](\A r \in Reqs :
            loc[r].jobIdValue # 0 =>
                /\ loc[r].jobIdValue \in JobIds
                /\ jobs[loc[r].jobIdValue].user_id = loc[r].userId
                /\ pc[r] # "done" => jobs[loc[r].jobIdValue].num_files = loc[r].numFiles
                /\ \A q \in Reqs \ {r} : loc[q].jobIdValue # loc[r].jobIdValue)
    /\ [][/\ Len(jobs') > Len(jobs) =>
                \E r \in Reqs : Acts(r) /\ loc'[r].jobIdValue = Len(jobs')
          /\ Len(file_names') > Len(file_names) =>
                \E r \in Reqs : Acts(r) /\ Last(file_names').job_id = loc[r].jobIdValue
          /\ \A r \in Reqs :
                (~Acts(r) /\ loc[r].jobIdValue \in JobIds) =>
                    /\ jobs'[loc[r].jobIdValue] = jobs[loc[r].jobIdValue]
                    /\ RowsOf(file_names', loc[r].jobIdValue) =
                          RowsOf(file_names, loc[r].jobIdValue)]_vars

\* Two handlers of the same user are in their loops, each with the row of
\* its first file written, the second request's row first.
C31_Witness ==
    /\ pc[1] = "loop"
    /\ pc[2] = "loop"
    /\ loc[1].userId = loc[2].userId
    /\ loc[1].jobIdValue = 1
    /\ loc[2].jobIdValue = 2
    /\ Len(file_names) = 2
    /\ file_names[1].job_id = 2
    /\ file_names[2].job_id = 1
    /\ lastRowid = 2


(***************************************************************************)
(* Failures before the conversion.                                         *)
(***************************************************************************)
EarlyErrors == {"Invalid file name", "No file content or URL provided",
                "Failed to download file"}

\* C32: without faults of the store, the step that looks at a file whose name
\* is empty once sanitized or that has neither a url nor content, and the
\* step in which the download of a file fails, append the file's row with
\* the error as status and no output file name, push an error entry with the
\* same error and no output file name, make no call of mainConverter, and
\* leave the handler at the next file; a call of mainConverter is only made
\* for a file that has a url or content and a name; so a row with one of
\* these errors is the row of a file no call was made for.
C32_EarlyFailures ==
    /\ [](\A j \in JobIds : \A k \in 1..Len(SelectFiles(j)) :
            SelectFiles(j)[k].status \in EarlyErrors =>
                /\ SelectFiles(j)[k].output_file_name = Empty
                /\ Attempts(j, k) = {})
    /\ [][\A r \in Reqs :
            /\ (pc[r] = "loop" /\ Acts(r) /\ loc[r].i < loc[r].numFiles) =>
                  \/ /\ pc'[r] = "materialize"
                     /\ loc'[r].file.kind # "none"
                     /\ sanitize(loc'[r].file.name) # Empty
                     /\ loc'[r].fileName = sanitize(loc'[r].file.name)
                     /\ UNCHANGED <<file_names, calls>>
                  \/ /\ Len(file_names') = Len(file_names) + 1
                     /\ Last(file_names').status \in
                           {"Invalid file name", "No file content or URL provided"}
            /\ (pc[r] = "materialize" /\ Acts(r)) =>
                  \/ /\ pc'[r] = "convert"
                     /\ Cardinality(calls') = Cardinality(calls) + 1
                     /\ UNCHANGED file_names
                  \/ /\ Len(file_names') = Len(file_names) + 1
                     /\ Last(file_names').status = "Failed to download file"
                     /\ loc[r].file.kind = "url"
            /\ (Acts(r) /\ Len(file_names') > Len(file_names)
                        /\ Last(file_names').status \in EarlyErrors) =>
                  /\ Last(file_names').job_id = loc[r].jobIdValue
                  /\ Last(file_names').output_file_name = Empty
                  /\ calls' = calls
                  /\ uploads' = uploads
                  /\ pc'[r] = "loop"
                  /\ loc'[r].i = loc[r].i + 1
                  /\ loc'[r].results =
                        Append(loc[r].results,
                               Failed(Last(file_names').file_name,
                                      Last(file_names').status))]_vars

\* A job of three files: the first has no usable name, the second neither a
\* url nor content, the download of the third failed; the job is partial and
\* no call of mainConverter was made for it.
C32_Witness ==
    \E j \in JobIds :
        /\ jobs[j].status = "partial"
        /\ Len(SelectFiles(j)) = 3
        /\ SelectFiles(j)[1].status = "Invalid file name"
        /\ SelectFiles(j)[2].status = "No file content or URL provided"
        /\ SelectFiles(j)[3].status = "Failed to download file"
        /\ \A c \in calls : c.job # j


(***************************************************************************)
(* A failed insert of a file's row.                                        *)
(***************************************************************************)
\* The handler of request r is between the first and the last file of its job.
InLoop(r) == /\ pc[r] \in {"loop", "materialize", "convert"}
             /\ loc[r].i < loc[r].numFiles

\* No handler is at work on job j.
Abandoned(j) == \A r \in Reqs : loc[r].jobIdValue = j => pc[r] \in {"idle", "done"}

\* C33: a step of a handler inside its loop in which a write to the store
\* fails and no row is written ends the request with status 500, leaves the
\* job pending with the rows written so far, fewer than num_files; and a
\* pending job no handler is at work on keeps its row and its file rows in
\* every later step.
C33_RecoveryGap ==
    /\ [][\A r \in Reqs :
            (InLoop(r) /\ Acts(r) /\ faults' > faults /\ file_names' = file_names) =>
                LET j == loc[r].jobIdValue
                IN  /\ pc'[r] = "done"
                    /\ resp'[r] = ErrorResp(500, "Internal server error")
                    /\ jobs' = jobs
                    /\ jobs[j].status = "pending"
                    /\ Len(SelectFiles(j)) <= loc[r].i
                    /\ Len(SelectFiles(j)) < jobs[j].num_files
                    /\ loc'[r].jobIdValue = j]_vars
    /\ [][\A j \in JobIds :
            (jobs[j].status = "pending" /\ Abandoned(j)) =>
                /\ jobs'[j] = jobs[j]
                /\ RowsOf(file_names', j) = RowsOf(file_names, j)
                /\ \A r \in Reqs : pc'[r] \notin {"idle", "done"} =>
                                       loc'[r].jobIdValue # j]_vars

\* The insert of the row of job 1's only file failed and the request was
\* answered with status 500; a later request completed job 2 and job 1 is
\* still pending without a row.
C33_Witness ==
    /\ Len(jobs) = 2
    /\ jobs[1].status = "pending"
    /\ jobs[1].num_files = 1
    /\ SelectFiles(1) = << >>
    /\ Abandoned(1)
    /\ <<"output", jobs[1].user_id, 1>> \in dirs
    /\ jobs[2].status = "completed"
    /\ faults = MaxFaults

(***************************************************************************)
(* The output file name of a row.                                          *)
(***************************************************************************)
\* The statuses of the rows written by the catch block and by the
\* invalid-name branch.
CaughtErrors ==
    EarlyErrors \cup {StoreError}
                \cup {ErrorMessage(Error(message)) : message \in ThrownMessages}

\* The texts mainConverter returns for a failed conversion.
ReturnedFailures == FailureReasons \cup {Unsupported}

\* C34: every row with status "Done" has a non-empty output file name, the
\* name of the target of a call of its file that returned "Done"; every row
\* with an empty output file name has the message of an error as status,
\* never "Done" and never the empty text; and the row of a file whose call
\* of mainConverter returned a failure text carries the output file name
\* computed for that call and the text as status.
C34_OutputNames ==
    \A j \in JobIds : \A k \in 1..Len(SelectFiles(j)) :
        LET row == SelectFiles(j)[k]
        IN  /\ row.status # ""
            /\ row.status = "Done" =>
                  /\ row.output_file_name # Empty
                  /\ \E c \in Attempts(j, k) :
                        c.result = "Done" /\ c.targetPath.name = row.output_file_name
            /\ row.output_file_name = Empty => row.status \in CaughtErrors
            /\ row.output_file_name # Empty =>
                  row.status \in {"Done"} \cup ReturnedFailures
            /\ \A c \in Attempts(j, k) :
                  c.result \in ReturnedFailures =>
                      /\ row.output_file_name = c.targetPath.name
                      /\ row.output_file_name # Empty
                      /\ row.status = c.result

\* A job with the row of a converted file and the row of a file whose
\* conversion returned a failure text, each with its own output file name.
C34_Witness ==
    \E j \in JobIds :
        /\ Len(SelectFiles(j)) = 2
        /\ SelectFiles(j)[1].status = "Done"
        /\ SelectFiles(j)[2].status \in FailureReasons
        /\ SelectFiles(j)[1].output_file_name # Empty
        /\ SelectFiles(j)[2].output_file_name # Empty
        /\ SelectFiles(j)[1].output_file_name # SelectFiles(j)[2].output_file_name
        /\ jobs[j].status = "partial"

(***************************************************************************)
(* The output file names of one job.                                       *)
(***************************************************************************)
\* The calls of mainConverter that were given the output path of row k of
\* job j.
WritersOf(j, k) ==
    {c \in calls : /\ c.targetPath.job = j
                   /\ c.targetPath.user = jobs[j].user_id
                   /\ c.targetPath.name = SelectFiles(j)[k].output_file_name}

Served200(jobId, fileName) ==
    {k \in 1..Len(file_names) :
        /\ file_names[k].job_id = jobId
        /\ file_names[k].output_file_name = decodeURIComponent(fileName)}

\* C36: whenever one of the two download endpoints answers 200 with a file,
\* the job has a row with that output file name whose status is "Done".
C36_OnlyDoneServed ==
    (reply.op \in {"download", "jobDownload"} /\ reply.code = 200) =>
        \E k \in Served200(reply.jobId, reply.fileName) :
            file_names[k].status = "Done"

\* The owner downloads the output of a converted file: 200, and the row
\* looked up has status "Done".
C36_Witness ==
    /\ reply.op \in {"download", "jobDownload"}
    /\ reply.code = 200
    /\ reply.file # <<>>
    /\ \E k \in Served200(reply.jobId, reply.fileName) :
          file_names[k].status = "Done"

(***************************************************************************)
(* The rename at the end of the libreoffice convert.                       *)
(***************************************************************************)
\* The calls in which soffice exited successfully and wrote its file, and
\* that have come to their end.
Generated == {c \in calls : c.converter = "libreoffice" /\ c.wrote
                               /\ c.result # "running"}

====
